---- MODULE Spec2Model ----
(***************************************************************************)
(* Schema-contract engine of participant-inventory:                        *)
(*   src/core/schema_registry.py  load_schema_registry and its helpers     *)
(*   src/core/file_ingest.py      load_dataset_frame and its helpers       *)
(* Python dicts are functions (a key is present iff it is in the DOMAIN),  *)
(* lists are sequences, strings are strings, a raised exception is a       *)
(* result record with ok = FALSE and an error record.                      *)
(***************************************************************************)
EXTENDS Integers, Sequences, FiniteSets, TLC

VARIABLES yaml_file, csv_file, schema, call, out

vars == <<yaml_file, csv_file, schema, call, out>>

(***************************************************************************)
(* Bounds of the model.                                                    *)
(***************************************************************************)
\* longest variables table (data rows of variables.csv)
MaxVarRows == 2

\* widest data file (columns), longest data file (rows), largest (cells)
MaxCols == 2

MaxFileRows == 2

MaxCells == 4

(***************************************************************************)
(* Python built-ins used by the code.                                      *)
(***************************************************************************)
EmptyDict == [k \in {} |-> k]

Get(d, k, default) == IF k \in DOMAIN d THEN d[k] ELSE default

Put(d, k, v) == [x \in (DOMAIN d) \cup {k} |-> IF x = k THEN v ELSE d[x]]

Range(s) == {s[i] : i \in DOMAIN s}

\* a parsed YAML value with its Python type: a mapping, a list, or None
Dict(v) == [type |-> "dict", value |-> v]

NotADict == [type |-> "list", value |-> EmptyDict]

EmptyDocument == [type |-> "none", value |-> EmptyDict]

\* a YAML value inside the datasets block that is no mapping: a scalar, with
\* Scalar("") for null and the empty text, the values Python takes as false
Scalar(v) == [scalar |-> v]

IsScalar(x) == DOMAIN x = {"scalar"}

\* "x or {}"
OrEmptyDict(x) == IF IsScalar(x) /\ x.scalar = "" THEN EmptyDict ELSE x

\* str.strip(): leading and trailing whitespace characters are removed
IsSpace(c) == c \in {" ", "\t", "\n", "\r"}

RECURSIVE LStrip(_)
LStrip(s) ==
    IF Len(s) > 0 /\ IsSpace(SubSeq(s, 1, 1)) THEN LStrip(SubSeq(s, 2, Len(s))) ELSE s

RECURSIVE RStrip(_)
RStrip(s) ==
    IF Len(s) > 0 /\ IsSpace(SubSeq(s, Len(s), Len(s)))
    THEN RStrip(SubSeq(s, 1, Len(s) - 1))
    ELSE s

Strip(s) == RStrip(LStrip(s))

\* str.lower() / str.upper(), letter by letter
UpperLetters == <<"A","B","C","D","E","F","G","H","I","J","K","L","M",
                  "N","O","P","Q","R","S","T","U","V","W","X","Y","Z">>

LowerLetters == <<"a","b","c","d","e","f","g","h","i","j","k","l","m",
                  "n","o","p","q","r","s","t","u","v","w","x","y","z">>

LowerChar(c) ==
    IF \E i \in DOMAIN UpperLetters : UpperLetters[i] = c
    THEN LowerLetters[CHOOSE i \in DOMAIN UpperLetters : UpperLetters[i] = c]
    ELSE c

UpperChar(c) ==
    IF \E i \in DOMAIN LowerLetters : LowerLetters[i] = c
    THEN UpperLetters[CHOOSE i \in DOMAIN LowerLetters : LowerLetters[i] = c]
    ELSE c

RECURSIVE Lower(_)
Lower(s) == IF Len(s) = 0 THEN s ELSE LowerChar(SubSeq(s, 1, 1)) \o Lower(SubSeq(s, 2, Len(s)))

RECURSIVE Upper(_)
Upper(s) == IF Len(s) = 0 THEN s ELSE UpperChar(SubSeq(s, 1, 1)) \o Upper(SubSeq(s, 2, Len(s)))

\* sorted(names): the names of the model in ascending (code point) order
NameOrder == <<"Age", "PID", "SubjID", "a", "age", "b", "dataset", "is_required",
               "participant_id", "source_column", "sql_type", "variable_name", "z">>

Sorted(S) == SelectSeq(NameOrder, LAMBDA n : n \in S)

(***************************************************************************)
(* Results of a call: a returned value or a raised exception.              *)
(***************************************************************************)
NoError == [kind |-> "none"]

Return(v) == [ok |-> TRUE, value |-> v, error |-> NoError]

Raise(e) == [ok |-> FALSE, value |-> EmptyDict, error |-> e]

(***************************************************************************)
(* schema_registry.py                                                      *)
(***************************************************************************)
\* _ensure_file_exists(path, label): the schema path exists and is a file
ensure_schema_file_exists(file, label) ==
    IF file.state = "missing"
    THEN Raise([kind |-> "FileNotFoundError", what |-> "missing", label |-> label])
    ELSE IF file.state # "file"
    THEN Raise([kind |-> "FileNotFoundError", what |-> "not_a_file", label |-> label])
    ELSE Return(TRUE)

\* _load_yaml(path): the parsed document ("or {}" for an empty document),
\* which must be a mapping at top level
load_yaml(file) ==
    IF ~file.parses
    THEN Raise([kind |-> "ValueError", what |-> "yaml_parse"])
    ELSE LET data == IF file.data.type = "none" THEN [type |-> "dict", value |-> EmptyDict]
                     ELSE file.data
         IN IF data.type # "dict"
            THEN Raise([kind |-> "ValueError", what |-> "yaml_top_level_not_dict"])
            ELSE Return(data.value)

required_headers == {"dataset", "source_column", "variable_name", "is_required", "sql_type"}

\* csv.DictReader: a line without any field is passed over; a line shorter
\* than the header has None (restval) for its missing fields; a line longer
\* than the header has the list of its extra fields under the key None
\* (restkey)
None == "<None>"

dict_reader(lines) == SelectSeq(lines, LAMBDA line : DOMAIN line # {})

\* "{k: (v or "").strip() for k, v in row.items()}"
CleanRow(row) == [k \in DOMAIN row |-> IF row[k] = None THEN "" ELSE Strip(row[k])]

\* faulty variant: a row with a blank key field is passed over
RECURSIVE load_csv_rows_skip_invalid(_, _, _)
load_csv_rows_skip_invalid(raw, line_no, rows) ==
    IF raw = <<>> THEN Return(rows)
    ELSE IF None \in DOMAIN Head(raw)
    THEN Raise([kind |-> "ValueError", what |-> "csv_read"])
    ELSE LET cleaned == CleanRow(Head(raw))
         IN IF cleaned.dataset = "" \/ cleaned.source_column = "" \/ cleaned.variable_name = ""
            THEN load_csv_rows_skip_invalid(Tail(raw), line_no + 1, rows)
            ELSE load_csv_rows_skip_invalid(Tail(raw), line_no + 1, Append(rows, cleaned))

\* the loop of _load_csv over the rows of the reader; the list under the key
\* None has no strip(), and the AttributeError is re-raised as a read failure
RECURSIVE load_csv_rows(_, _, _)
load_csv_rows(raw, line_no, rows) ==
    IF raw = <<>> THEN Return(rows)
    ELSE IF None \in DOMAIN Head(raw)
    THEN Raise([kind |-> "ValueError", what |-> "csv_read"])
    ELSE LET cleaned == CleanRow(Head(raw))
         IN IF cleaned.dataset = "" \/ cleaned.source_column = "" \/ cleaned.variable_name = ""
            THEN Raise([kind |-> "ValueError", what |-> "invalid_row", line_no |-> line_no])
            ELSE load_csv_rows(Tail(raw), line_no + 1, Append(rows, cleaned))

\* _load_csv(path): header check, then every row stripped and validated
load_csv(file) ==
    IF ~file.readable
    THEN Raise([kind |-> "ValueError", what |-> "csv_read"])
    ELSE LET missing == Sorted(required_headers \ file.fieldnames)
         IN IF missing # <<>>
            THEN Raise([kind |-> "ValueError", what |-> "missing_headers", missing |-> missing])
            ELSE load_csv_rows(dict_reader(file.rows), 2, <<>>)

\* _extract_dataset_names(datasets_yaml)
extract_dataset_names(datasets_yaml) ==
    LET datasets == Get(datasets_yaml, "datasets", [type |-> "dict", value |-> EmptyDict])
    IN IF datasets.type # "dict"
       THEN Raise([kind |-> "ValueError", what |-> "datasets_not_mapping"])
       ELSE Return(DOMAIN datasets.value)

\* grouped.setdefault(dataset, []).append(r); a dict keeps its keys in
\* insertion order, so it is a sequence of [key, value] items
setdefault_append(grouped, dataset, r) ==
    IF \E i \in DOMAIN grouped : grouped[i].key = dataset
    THEN [i \in DOMAIN grouped |->
            IF grouped[i].key = dataset
            THEN [key |-> dataset, value |-> Append(grouped[i].value, r)]
            ELSE grouped[i]]
    ELSE Append(grouped, [key |-> dataset, value |-> <<r>>])

RECURSIVE group_rows(_, _)
group_rows(rows, grouped) ==
    IF rows = <<>> THEN grouped
    ELSE group_rows(Tail(rows), setdefault_append(grouped, Head(rows).dataset, Head(rows)))

\* faulty variant: the loop starts after the first row
group_by_dataset_skip_first(rows) ==
    IF rows = <<>> THEN <<>> ELSE group_rows(Tail(rows), <<>>)

\* _group_by_dataset(rows): dataset -> its rows, in file order
group_by_dataset(rows) == group_rows(rows, <<>>)

\* faulty variant: one token more
truthy_with_t == {"true", "1", "yes", "y", "t"}

truthy == {"true", "1", "yes", "y"}

\* faulty variant: the comparison turned round
is_ambiguous_when_equal(source_map, src, canon) ==
    src \in DOMAIN source_map /\ source_map[src] = canon

\* "if src in source_map and source_map[src] != canon"
is_ambiguous(source_map, src, canon) ==
    src \in DOMAIN source_map /\ source_map[src] # canon

\* faulty variant: a row that is not marked required clears the mark
RECURSIVE build_dataset_maps_clearing(_, _, _, _, _)
build_dataset_maps_clearing(dataset, rows, source_map, required_set, types_map) ==
    IF rows = <<>>
    THEN Return([source_map |-> source_map, required_set |-> required_set,
                 types_map |-> types_map])
    ELSE LET r == Head(rows)
             src == r.source_column
             canon == r.variable_name
             sql_type == Upper(Strip(Get(r, "sql_type", "TEXT")))
         IN IF is_ambiguous(source_map, src, canon)
            THEN Raise([kind |-> "ValueError", what |-> "ambiguous_mapping",
                        dataset |-> dataset, source_column |-> src,
                        first |-> source_map[src], second |-> canon])
            ELSE build_dataset_maps_clearing(dataset, Tail(rows),
                     Put(source_map, src, canon),
                     IF Lower(Strip(Get(r, "is_required", ""))) \in truthy
                     THEN required_set \cup {canon} ELSE required_set \ {canon},
                     Put(types_map, canon, sql_type))

\* the inner loop of _build_lookup_maps over the rows of one dataset
RECURSIVE build_dataset_maps(_, _, _, _, _)
build_dataset_maps(dataset, rows, source_map, required_set, types_map) ==
    IF rows = <<>>
    THEN Return([source_map |-> source_map, required_set |-> required_set,
                 types_map |-> types_map])
    ELSE LET r == Head(rows)
             src == r.source_column
             canon == r.variable_name
             sql_type == Upper(Strip(Get(r, "sql_type", "TEXT")))
         IN IF is_ambiguous(source_map, src, canon)
            THEN Raise([kind |-> "ValueError", what |-> "ambiguous_mapping",
                        dataset |-> dataset, source_column |-> src,
                        first |-> source_map[src], second |-> canon])
            ELSE build_dataset_maps(dataset, Tail(rows),
                     Put(source_map, src, canon),
                     IF Lower(Strip(Get(r, "is_required", ""))) \in truthy
                     THEN required_set \cup {canon} ELSE required_set,
                     Put(types_map, canon, sql_type))

\* the outer loop of _build_lookup_maps, datasets in dict order
RECURSIVE build_lookup_loop(_, _, _, _)
build_lookup_loop(items, source_to_canonical, required_vars, sql_types) ==
    IF items = <<>>
    THEN Return([source_to_canonical |-> source_to_canonical,
                 required_vars |-> required_vars, sql_types |-> sql_types])
    ELSE LET dataset == Head(items).key
             one == build_dataset_maps(dataset, Head(items).value, EmptyDict, {}, EmptyDict)
         IN IF ~one.ok THEN one
            ELSE build_lookup_loop(Tail(items),
                     Put(source_to_canonical, dataset, one.value.source_map),
                     Put(required_vars, dataset, one.value.required_set),
                     Put(sql_types, dataset, one.value.types_map))

\* _build_lookup_maps(variables_by_dataset)
build_lookup_maps(variables_by_dataset) ==
    build_lookup_loop(variables_by_dataset, EmptyDict, EmptyDict, EmptyDict)

\* faulty variant: the names listed as the set iterates, an order that is
\* not the same from one construction to the next
missing_datasets_in_set_order(variables_dataset_names, dataset_names) ==
    LET up == Sorted(variables_dataset_names \ dataset_names)
    IN IF schema.error.kind = "not_called" THEN up
       ELSE [i \in DOMAIN up |-> up[Len(up) + 1 - i]]

\* faulty variant: the set difference taken the other way round
missing_datasets_reversed(variables_dataset_names, dataset_names) ==
    Sorted(dataset_names \ variables_dataset_names)

\* "missing_in_yaml = sorted(variables_dataset_names - dataset_names)"
missing_datasets(variables_dataset_names, dataset_names) ==
    Sorted(variables_dataset_names \ dataset_names)

\* load_schema_registry, from the cross-check on
compose_registry(datasets_yaml, variables_rows) ==
    LET names == extract_dataset_names(datasets_yaml)
    IN IF ~names.ok THEN names
       ELSE LET dataset_names == names.value
                variables_dataset_names == {variables_rows[i].dataset : i \in DOMAIN variables_rows}
                missing_in_yaml == missing_datasets(variables_dataset_names, dataset_names)
            IN IF missing_in_yaml # <<>>
               THEN Raise([kind |-> "ValueError", what |-> "schema_mismatch",
                           missing_in_yaml |-> missing_in_yaml])
               ELSE LET variables_by_dataset == group_by_dataset(variables_rows)
                        maps == build_lookup_maps(variables_by_dataset)
                    IN IF ~maps.ok THEN maps
                       ELSE LET id_aliases ==
                                    LET v == Get(datasets_yaml, "id_column_aliases",
                                                 [type |-> "dict", value |-> EmptyDict])
                                    IN IF v.type = "none"
                                       THEN [type |-> "dict", value |-> EmptyDict] ELSE v
                            IN IF id_aliases.type # "dict"
                               THEN Raise([kind |-> "ValueError", what |-> "id_aliases_not_mapping"])
                               ELSE Return([
                                   datasets_yaml |-> datasets_yaml,
                                   variables_rows |-> variables_rows,
                                   dataset_names |-> dataset_names,
                                   variables_dataset_names |-> variables_dataset_names,
                                   variables_by_dataset |-> variables_by_dataset,
                                   source_to_canonical_by_dataset |-> maps.value.source_to_canonical,
                                   required_vars_by_dataset |-> maps.value.required_vars,
                                   sql_types_by_dataset |-> maps.value.sql_types,
                                   participant_id_column |->
                                       Get(datasets_yaml, "participant_id_column", "participant_id"),
                                   id_aliases |-> id_aliases.value])

\* load_schema_registry(datasets_yaml_path, variables_csv_path)
load_schema_registry(yfile, cfile) ==
    LET e1 == ensure_schema_file_exists(yfile, "datasets.yaml")
        e2 == ensure_schema_file_exists(cfile, "variables.csv")
    IN IF ~e1.ok THEN e1
       ELSE IF ~e2.ok THEN e2
       ELSE LET datasets_yaml == load_yaml(yfile)
            IN IF ~datasets_yaml.ok THEN datasets_yaml
               ELSE LET variables_rows == load_csv(cfile)
                    IN IF ~variables_rows.ok THEN variables_rows
                       ELSE compose_registry(datasets_yaml.value, variables_rows.value)

(***************************************************************************)
(* file_ingest.py.  A helper's result also carries the log entries it       *)
(* emitted and the file-system operations it performed, in order.          *)
(***************************************************************************)
Ok(v, log, io) ==
    [ok |-> TRUE, value |-> v, error |-> NoError, log |-> log, io |-> io, trace |-> <<>>]

Info(what, detail) == [level |-> "info", what |-> what, detail |-> detail]

\* "logger.error(msg); raise ...(msg)"
LogAndRaise(e, log, io) ==
    [ok |-> FALSE, value |-> EmptyDict, error |-> e,
     log |-> Append(log, [level |-> "error", what |-> e.what, detail |-> e]), io |-> io,
     trace |-> <<>>]

\* an exception that leaves the function without a log entry
RaiseUnlogged(e, log, io) ==
    [ok |-> FALSE, value |-> EmptyDict, error |-> e, log |-> log, io |-> io, trace |-> <<>>]

\* the result of a step of load_dataset_frame, after the log and the file
\* accesses of the earlier steps; trace keeps what each step gave
After(prev, stage, r) ==
    [r EXCEPT !.log = prev.log \o r.log,
              !.io = prev.io \o r.io,
              !.trace = Append(prev.trace,
                               [stage |-> stage, ok |-> r.ok, value |-> r.value,
                                error |-> r.error])]

Entered == Ok(TRUE, <<>>, <<>>)

\* pandas' missing-value marker, which no text cell equals
NaN == "<NaN>"

\* faulty variant: the membership test left out
ensure_dataset_known_unchecked(schema_, dataset) == Ok(TRUE, <<>>, <<>>)

\* _ensure_dataset_known(schema, dataset)
ensure_dataset_known(schema_, dataset) ==
    IF dataset \notin schema_.dataset_names
    THEN LogAndRaise([kind |-> "ValueError", what |-> "unknown_dataset", dataset |-> dataset,
                      known |-> Sorted(schema_.dataset_names)], <<>>, <<>>)
    ELSE Ok(TRUE, <<>>, <<>>)

\* _ensure_file_exists(path): exists(), is_file(), stat().st_size
ensure_file_exists(file) ==
    IF file.state = "missing"
    THEN LogAndRaise([kind |-> "FileNotFoundError", what |-> "file_missing"], <<>>, <<"exists">>)
    ELSE IF file.state # "file"
    THEN LogAndRaise([kind |-> "FileNotFoundError", what |-> "not_a_file"],
                     <<>>, <<"exists", "is_file">>)
    ELSE IF file.size = 0
    THEN LogAndRaise([kind |-> "ValueError", what |-> "empty_file"],
                     <<>>, <<"exists", "is_file", "stat">>)
    ELSE Ok(TRUE, <<>>, <<"exists", "is_file", "stat">>)

\* int(text): surrounding whitespace and one sign are allowed, the rest must
\* be decimal digits
Digits == <<"0", "1", "2", "3", "4", "5", "6", "7", "8", "9">>

IsDigit(c) == \E i \in DOMAIN Digits : Digits[i] = c

RECURSIVE digits_value(_, _)
digits_value(s, acc) ==
    IF Len(s) = 0 THEN acc
    ELSE digits_value(SubSeq(s, 2, Len(s)),
                      10 * acc + (CHOOSE i \in DOMAIN Digits : Digits[i] = SubSeq(s, 1, 1)) - 1)

int_of_text(text) ==
    LET t == Strip(text)
        signed == Len(t) > 0 /\ SubSeq(t, 1, 1) \in {"+", "-"}
        body == IF signed THEN SubSeq(t, 2, Len(t)) ELSE t
    IN IF Len(body) > 0 /\ \A i \in 1..Len(body) : IsDigit(SubSeq(body, i, i))
       THEN Return(IF signed /\ SubSeq(t, 1, 1) = "-"
                   THEN 0 - digits_value(body, 0) ELSE digits_value(body, 0))
       ELSE Raise([kind |-> "ValueError", what |-> "int"])

\* int(x) of a float, given in tenths: the fraction is cut off, towards zero
int_of_float(tenths) ==
    IF tenths >= 0 THEN tenths \div 10 ELSE 0 - ((0 - tenths) \div 10)

\* int(header_val) of a YAML scalar: an integer, a float, a text or null
to_int(v) ==
    IF v.type = "int" THEN Return(v.value)
    ELSE IF v.type = "float" THEN Return(int_of_float(v.tenths))
    ELSE IF v.type = "str" THEN int_of_text(v.value)
    ELSE Raise([kind |-> "TypeError", what |-> "int"])

\* "x or """: None and the empty text give the empty text
OrEmptyText(x) == IF x = None THEN "" ELSE x

\* the rest of _get_dataset_source_config, source_cfg being a mapping
source_settings(source_cfg, dataset) ==
    LET kind == Lower(Strip(OrEmptyText(Get(source_cfg, "kind", None))))
    IN IF kind = ""
       THEN LogAndRaise([kind |-> "ValueError", what |-> "missing_kind", dataset |-> dataset],
                        <<>>, <<>>)
       ELSE IF kind \notin {"csv", "xlsx"}
       THEN LogAndRaise([kind |-> "ValueError", what |-> "unsupported_kind",
                         dataset |-> dataset, source_kind |-> kind], <<>>, <<>>)
       ELSE IF kind = "xlsx"
       THEN LET sheet_name_val == Get(source_cfg, "sheet_name", None)
            IN IF sheet_name_val = None \/ Strip(sheet_name_val) = ""
               THEN LogAndRaise([kind |-> "ValueError", what |-> "missing_sheet_name",
                                 dataset |-> dataset], <<>>, <<>>)
               ELSE LET header_val == Get(source_cfg, "header_row", [type |-> "int", value |-> 0])
                        header_row == to_int(header_val)
                    IN IF ~header_row.ok
                       THEN LogAndRaise([kind |-> "ValueError", what |-> "header_row_not_integer",
                                         dataset |-> dataset], <<>>, <<>>)
                       ELSE IF header_row.value < 0
                       THEN LogAndRaise([kind |-> "ValueError", what |-> "header_row_negative",
                                         dataset |-> dataset], <<>>, <<>>)
                       ELSE Ok([kind |-> kind, sheet_name |-> sheet_name_val,
                                header_row |-> header_row.value],
                               <<Info("source", kind)>>, <<>>)
       ELSE Ok([kind |-> kind, sheet_name |-> None, header_row |-> None],
               <<Info("source", kind)>>, <<>>)

\* _get_dataset_source_config(schema, dataset): ".get" on a dataset entry or
\* a source value that is no mapping is an AttributeError, which nothing logs
get_dataset_source_config(schema_, dataset) ==
    LET datasets_block == Get(schema_.datasets_yaml, "datasets", Dict(EmptyDict)).value
        dataset_cfg == Get(datasets_block, dataset, EmptyDict)
    IN IF IsScalar(dataset_cfg)
       THEN RaiseUnlogged([kind |-> "AttributeError", what |-> "not_a_mapping"], <<>>, <<>>)
       ELSE LET source_cfg == OrEmptyDict(Get(dataset_cfg, "source", Scalar("")))
            IN IF IsScalar(source_cfg)
               THEN RaiseUnlogged([kind |-> "AttributeError", what |-> "not_a_mapping"],
                                  <<>>, <<>>)
               ELSE source_settings(source_cfg, dataset)

\* _read_to_df(path, kind, sheet_name, header_row): pandas parses the file
\* as the source settings say; file.parse is what the reader does with the
\* content.  An exception that is a ValueError (pandas' parser and empty-data
\* errors, a decoding error) is re-raised as it is, any other is logged and
\* wrapped; a frame without rows or without columns is refused.  With kind
\* and sheet_name as _get_dataset_source_config returns them, the branches
\* for a missing sheet name and an unsupported kind are never taken.
read_to_df(file, kind, sheet_name, header_row) ==
    IF file.parse = "other_error"
    THEN LogAndRaise([kind |-> "ValueError", what |-> "read_failed", source_kind |-> kind],
                     <<>>, <<"read">>)
    ELSE IF file.parse = "value_error"
    THEN RaiseUnlogged([kind |-> "ValueError", what |-> "parse_error"], <<>>, <<"read">>)
    ELSE IF file.frame.rows = <<>> \/ file.frame.columns = <<>>
    THEN LogAndRaise([kind |-> "ValueError", what |-> "no_rows"], <<>>, <<"read">>)
    ELSE Ok(file.frame, <<Info("read", <<Len(file.frame.rows), Len(file.frame.columns)>>)>>,
            <<"read">>)

(***************************************************************************)
(* pandas frames: the column labels in order and the rows, each row the    *)
(* cells of the columns by position.                                       *)
(***************************************************************************)
\* df.rename(columns=renames)
rename_columns(df, renames) ==
    [df EXCEPT !.columns =
        [i \in DOMAIN df.columns |->
            IF df.columns[i] \in DOMAIN renames THEN renames[df.columns[i]] ELSE df.columns[i]]]

\* df[keep_cols], keep_cols given by their positions
select_columns(df, keep) ==
    [columns |-> [j \in DOMAIN keep |-> df.columns[keep[j]]],
     rows |-> [r \in DOMAIN df.rows |-> [j \in DOMAIN keep |-> df.rows[r][keep[j]]]]]

\* faulty variant: a label is compared with the labels before its left neighbour only
duplicated_labels_skip_neighbour(columns) ==
    LET dupAt == SelectSeq([i \in DOMAIN columns |-> i],
                           LAMBDA i : \E j \in 1..(i - 2) : columns[j] = columns[i])
    IN [k \in DOMAIN dupAt |-> columns[dupAt[k]]]

\* df.columns[df.columns.duplicated()]: every label at its second and later places
duplicated_labels(columns) ==
    LET dupAt == SelectSeq([i \in DOMAIN columns |-> i],
                           LAMBDA i : \E j \in 1..(i - 1) : columns[j] = columns[i])
    IN [k \in DOMAIN dupAt |-> columns[dupAt[k]]]

\* faulty variant: the fillna("") left out, so a missing value stays a marker
normalise_id_without_fillna(v) == Strip(v)

\* .fillna("").astype(str).str.strip() of one cell
normalise_id(v) == Strip(IF v = NaN THEN "" ELSE v)

\* faulty variant: the first column of the file that is an alias, not the first alias
first_alias_in_file_order(aliases, columns) ==
    LET hits == SelectSeq(columns, LAMBDA c : c \in Range(aliases))
    IN IF hits = <<>> THEN <<>> ELSE <<Head(hits)>>

\* "for a in aliases: if a in df.columns: id_col = a; break"
first_alias(aliases, columns) ==
    LET hits == SelectSeq(aliases, LAMBDA a : a \in Range(columns))
    IN IF hits = <<>> THEN <<>> ELSE <<Head(hits)>>

\* "df[canonical] = ...; df = df[df[canonical] != '']"
drop_blank_ids(df, canonical) ==
    LET cleaned == [r \in DOMAIN df.rows |->
                      [j \in DOMAIN df.columns |->
                          IF df.columns[j] = canonical
                          THEN normalise_id(df.rows[r][j]) ELSE df.rows[r][j]]]
        blank(row) == \E j \in DOMAIN df.columns : df.columns[j] = canonical /\ row[j] = ""
    IN [df EXCEPT !.rows = SelectSeq(cleaned, LAMBDA row : ~blank(row))]

\* _standardize_participant_id(df, schema)
standardize_participant_id(df, schema_) ==
    LET canonical == schema_.participant_id_column
        aliases == Get(schema_.id_aliases, canonical, <<>>)
        found == first_alias(aliases, df.columns)
    IN IF canonical \notin Range(df.columns) /\ found = <<>>
       THEN LogAndRaise([kind |-> "ValueError", what |-> "missing_id_column",
                         canonical |-> canonical, aliases |-> aliases,
                         columns |-> df.columns], <<>>, <<>>)
       ELSE LET named == IF canonical \in Range(df.columns) THEN df
                         ELSE rename_columns(df, [c \in {found[1]} |-> canonical])
                kept == drop_blank_ids(named, canonical)
                dropped == Len(named.rows) - Len(kept.rows)
            IN Ok(kept,
                  IF dropped > 0 THEN <<Info("dropped_rows", dropped)>> ELSE <<>>,
                  <<>>)

\* faulty variant: the identifier column kept only if the mapping names it
keep_positions_mapped_only(df, mapping, participant_id_column) ==
    SelectSeq([i \in DOMAIN df.columns |-> i], LAMBDA i : df.columns[i] \in DOMAIN mapping)

\* "keep_cols = [c for c in df.columns if (c in mapping) or (c == participant_id_column)]"
keep_positions(df, mapping, participant_id_column) ==
    SelectSeq([i \in DOMAIN df.columns |-> i],
              LAMBDA i : df.columns[i] \in DOMAIN mapping
                         \/ df.columns[i] = participant_id_column)

\* "rename_map = {c: mapping[c] for c in keep_cols if c in mapping}"
rename_map(kept_columns, mapping) ==
    [c \in Range(kept_columns) \cap DOMAIN mapping |-> mapping[c]]

\* _rename_and_filter_to_canonical(df, mapping, dataset=, participant_id_column=)
rename_and_filter_to_canonical(df, mapping, dataset, participant_id_column) ==
    LET original_cols == df.columns
        keep == keep_positions(df, mapping, participant_id_column)
        kept == select_columns(df, keep)
        dropped_cols == SelectSeq(df.columns, LAMBDA c : c \notin Range(kept.columns))
        log1 == IF dropped_cols # <<>> THEN <<Info("dropped_columns", dropped_cols)>> ELSE <<>>
        renamed == rename_columns(kept, rename_map(kept.columns, mapping))
        dups == duplicated_labels(renamed.columns)
    IN IF dups # <<>>
       THEN LogAndRaise([kind |-> "ValueError", what |-> "duplicate_columns",
                         dataset |-> dataset, dups |-> dups,
                         original_cols |-> original_cols], log1, <<>>)
       ELSE Ok(renamed, Append(log1, Info("kept", <<Len(keep), Len(original_cols)>>)), <<>>)

\* faulty variant: satisfied as soon as one required column is present
missing_required_unless_any(required_vars, present_cols) ==
    IF required_vars \cap present_cols # {} THEN <<>>
    ELSE Sorted(required_vars \ present_cols)

\* "missing_required = sorted(required_vars - present_cols)"
missing_required(required_vars, present_cols) == Sorted(required_vars \ present_cols)

\* _validate_required_columns(df, dataset=, required_vars=, expected_vars=)
validate_required_columns(df, dataset, required_vars, expected_vars) ==
    LET present_cols == Range(df.columns)
        log1 == <<Info("present", <<Cardinality(present_cols \cap expected_vars),
                                    Cardinality(expected_vars)>>)>>
        missing == missing_required(required_vars, present_cols)
        missing_optional == Sorted((expected_vars \ required_vars) \ present_cols)
    IN IF missing # <<>>
       THEN LogAndRaise([kind |-> "ValueError", what |-> "missing_required",
                         dataset |-> dataset, missing |-> missing], log1, <<>>)
       ELSE Ok(TRUE,
               IF missing_optional # <<>>
               THEN Append(log1, Info("missing_optional", missing_optional)) ELSE log1,
               <<>>)

\* faulty variant: the add made on the registry's own set
add_identifier_in_place(schema_, dataset) ==
    [required_vars |-> Get(schema_.required_vars_by_dataset, dataset, {})
                       \cup {schema_.participant_id_column},
     schema |-> IF dataset \in DOMAIN schema_.required_vars_by_dataset
                THEN [schema_ EXCEPT !.required_vars_by_dataset[dataset] =
                                        @ \cup {schema_.participant_id_column}]
                ELSE schema_]

\* "required_vars = set(schema.required_vars_by_dataset.get(dataset, set()))"
\* and "required_vars.add(schema.participant_id_column)": set(...) builds a
\* new set, so the add changes the local set and the registry stays as it was
add_identifier_to_required(schema_, dataset) ==
    [required_vars |-> Get(schema_.required_vars_by_dataset, dataset, {})
                       \cup {schema_.participant_id_column},
     schema |-> schema_]

\* faulty variant: an empty mapping is let through
standardize_columns_any_mapping(prev, df, dataset, schema_) ==
    LET mapping == Get(schema_.source_to_canonical_by_dataset, dataset, EmptyDict)
        mapped == After(prev, "mapping", Ok(mapping, <<>>, <<>>))
        renamed == After(mapped, "rename", rename_and_filter_to_canonical(
                            df, mapping, dataset, schema_.participant_id_column))
    IN IF ~renamed.ok THEN renamed
       ELSE LET expected_vars == Range(mapping)
                required_vars == add_identifier_to_required(schema_, dataset).required_vars
                valid == After(renamed, "validate", validate_required_columns(
                             renamed.value, dataset, required_vars, expected_vars))
            IN IF ~valid.ok THEN valid
               ELSE [valid EXCEPT !.value = renamed.value]

\* load_dataset_frame, from the column mapping on
standardize_columns(prev, df, dataset, schema_) ==
    LET mapping == Get(schema_.source_to_canonical_by_dataset, dataset, EmptyDict)
        mapped == After(prev, "mapping",
                        IF DOMAIN mapping = {}
                        THEN LogAndRaise([kind |-> "ValueError", what |-> "no_mapping",
                                          dataset |-> dataset], <<>>, <<>>)
                        ELSE Ok(mapping, <<>>, <<>>))
    IN IF ~mapped.ok THEN mapped
       ELSE LET renamed == After(mapped, "rename", rename_and_filter_to_canonical(
                                df, mapping, dataset, schema_.participant_id_column))
            IN IF ~renamed.ok THEN renamed
               ELSE LET expected_vars == Range(mapping)
                        required_vars ==
                            add_identifier_to_required(schema_, dataset).required_vars
                        valid == After(renamed, "validate", validate_required_columns(
                                     renamed.value, dataset, required_vars, expected_vars))
                    IN IF ~valid.ok THEN valid
                       ELSE [valid EXCEPT !.value = renamed.value]

\* faulty variant: the file looked at before the dataset name
load_dataset_frame_file_first(dataset, file, schema_) ==
    LET exists == After(Entered, "file_exists", ensure_file_exists(file))
    IN IF ~exists.ok THEN exists
       ELSE LET known == After(exists, "dataset_known", ensure_dataset_known(schema_, dataset))
            IN IF ~known.ok THEN known
               ELSE LET cfg == After(known, "source_config",
                                     get_dataset_source_config(schema_, dataset))
                    IN IF ~cfg.ok THEN cfg
                       ELSE LET read == After(cfg, "read",
                                              read_to_df(file, cfg.value.kind,
                                                  cfg.value.sheet_name, cfg.value.header_row))
                            IN IF ~read.ok THEN read
                               ELSE LET ident == After(read, "identifier",
                                            standardize_participant_id(read.value, schema_))
                                    IN IF ~ident.ok THEN ident
                                       ELSE standardize_columns(ident, ident.value,
                                                                dataset, schema_)

\* load_dataset_frame(dataset=, file_path=, schema=)
load_dataset_frame(dataset, file, schema_) ==
    LET known == After(Entered, "dataset_known", ensure_dataset_known(schema_, dataset))
    IN IF ~known.ok THEN known
       ELSE LET exists == After(known, "file_exists", ensure_file_exists(file))
            IN IF ~exists.ok THEN exists
               ELSE LET cfg == After(exists, "source_config",
                                     get_dataset_source_config(schema_, dataset))
                    IN IF ~cfg.ok THEN cfg
                       ELSE LET read == After(cfg, "read",
                                              read_to_df(file, cfg.value.kind,
                                                  cfg.value.sheet_name, cfg.value.header_row))
                            IN IF ~read.ok THEN read
                               ELSE LET ident == After(read, "identifier",
                                            standardize_participant_id(read.value, schema_))
                                    IN IF ~ident.ok THEN ident
                                       ELSE standardize_columns(ident, ident.value,
                                                                dataset, schema_)

\* the registry object after a call of load_dataset_frame that gave r: the
\* only statement of the call that changes a set or a dict is the add of the
\* identifier to the required names, made once the rename has succeeded
registry_after_load(r, dataset, schema_) ==
    IF \E i \in DOMAIN r.trace : r.trace[i].stage = "validate"
    THEN add_identifier_to_required(schema_, dataset).schema
    ELSE schema_

(***************************************************************************)
(* bulk_import.py.  A run of bulk_load_datasets is a frame: where the run   *)
(* stands (pc), the datasets still to visit, the results dict (items in    *)
(* insertion order), the log, the cache directory and what each visit did. *)
(***************************************************************************)
Entry(level, what, dataset, file) ==
    [level |-> level, what |-> what, dataset |-> dataset, file |-> file]

BulkFrame(pc, todo, results, log, cache, error, trace) ==
    [ok |-> pc = "returned", value |-> results, error |-> error, log |-> log,
     trace |-> trace, pc |-> pc, todo |-> todo, cache |-> cache]

\* an exception that leaves bulk_load_datasets, before the loop or at the
\* visit of the first dataset of todo; the others are never visited
Abort(st, e, log, trace) ==
    BulkFrame("raised", IF st.todo = <<>> THEN <<>> ELSE Tail(st.todo), st.value, log,
              st.cache, e, trace)

\* "continue": the loop goes on with the next dataset
Continue(st, results, log, cache, trace) ==
    BulkFrame("loop", Tail(st.todo), results, log, cache, NoError, trace)

Visit(dataset, outcome, file, load) ==
    [dataset |-> dataset, outcome |-> outcome, file |-> file, load |-> load]

NoLoad == [ok |-> FALSE, value |-> EmptyDict, error |-> [kind |-> "not_called"],
           log |-> <<>>, io |-> <<>>, trace |-> <<>>]

\* no cache_dir given (None)
NoCacheDir == [state |-> "none", unwritable |-> {}, written |-> <<>>]

\* "cache_path.mkdir(parents=True, exist_ok=True)": a path that is a file
\* cannot be made a directory
mkdir(cache_dir) ==
    IF cache_dir.state = "file"
    THEN Raise([kind |-> "FileExistsError", what |-> "cache_dir"])
    ELSE Return([cache_dir EXCEPT !.state = "directory"])

\* faulty variant: the names taken in descending order
visit_order_descending(dataset_names) ==
    LET up == Sorted(dataset_names)
    IN [i \in DOMAIN up |-> up[Len(up) + 1 - i]]

\* "for dataset in sorted(schema.dataset_names)"
visit_order(dataset_names) == Sorted(dataset_names)

\* bulk_load_datasets up to the loop: data_dir checked, cache_dir made, the
\* datasets block taken from the registry
bulk_start(data_dir, schema_, cache_dir) ==
    LET idle == BulkFrame("idle", <<>>, <<>>, <<>>, cache_dir, NoError, <<>>)
        block == Get(schema_.datasets_yaml, "datasets", Dict(EmptyDict))
    IN IF data_dir.state # "directory"
       THEN Abort(idle, [kind |-> "ValueError", what |-> "data_dir"],
                  <<Entry("error", "data_dir", "", "")>>, <<>>)
       ELSE LET made == IF cache_dir.state = "none" THEN Return(cache_dir)
                        ELSE mkdir(cache_dir)
            IN IF ~made.ok THEN Abort(idle, made.error, <<>>, <<>>)
               ELSE IF block.type \notin {"dict", "none"}
               THEN Abort([idle EXCEPT !.cache = made.value],
                          [kind |-> "ValueError", what |-> "datasets_not_dict"],
                          <<Entry("error", "datasets_not_dict", "", "")>>, <<>>)
               ELSE BulkFrame("loop", visit_order(schema_.dataset_names), <<>>, <<>>,
                              made.value, NoError, <<>>)

\* "results[dataset] = df"
setitem(items, k, v) ==
    IF \E i \in DOMAIN items : items[i].key = k
    THEN [i \in DOMAIN items |-> IF items[i].key = k THEN [key |-> k, value |-> v] ELSE items[i]]
    ELSE Append(items, [key |-> k, value |-> v])

Keys(items) == [i \in DOMAIN items |-> items[i].key]

\* faulty variant: the test left out, a file that is not there is loaded
file_is_absent_unchecked(file_name, data_dir) == FALSE

\* "if not file_path.exists()"
file_is_absent(file_name, data_dir) == file_name \notin DOMAIN data_dir.files

\* faulty variant: the exception of load_dataset_frame leaves the run
on_load_error_reraise(st, dataset, file_name, r) ==
    Abort(st, r.error, st.log \o r.log,
          Append(st.trace, Visit(dataset, "failed", file_name, r)))

\* "except Exception as e: logger.error(...); continue"
on_load_error(st, dataset, file_name, r) ==
    Continue(st, st.value,
             (st.log \o r.log) \o <<Entry("error", "load_failed", dataset, file_name)>>,
             st.cache, Append(st.trace, Visit(dataset, "failed", file_name, r)))

\* faulty variant: every artifact goes to the file of the first one
write_cache_one_file(cache, dataset) ==
    LET artifact == IF cache.written = <<>> THEN dataset \o ".parquet" ELSE Head(cache.written)
    IN IF artifact \in cache.unwritable
       THEN Raise([kind |-> "OSError", what |-> "cache_write", file |-> artifact])
       ELSE Return([cache EXCEPT !.written =
                       IF artifact \in Range(@) THEN @ ELSE Append(@, artifact)])

\* "df.to_parquet(cache_path / f'{dataset}.parquet', index=False)": the file
\* is written unless the path cannot be written to
write_cache(cache, dataset) ==
    LET artifact == dataset \o ".parquet"
    IN IF artifact \in cache.unwritable
       THEN Raise([kind |-> "OSError", what |-> "cache_write", file |-> artifact])
       ELSE Return([cache EXCEPT !.written =
                       IF artifact \in Range(@) THEN @ ELSE Append(@, artifact)])

\* the loop body after a load that returned: the result stored, then the
\* cache written, which no try block encloses
on_load_success(st, dataset, file_name, r) ==
    LET results == setitem(st.value, dataset, r.value)
        log == (st.log \o r.log) \o <<Entry("info", "loaded", dataset, file_name)>>
    IN IF st.cache.state = "none"
       THEN Continue(st, results, log, st.cache,
                     Append(st.trace, Visit(dataset, "loaded", file_name, r)))
       ELSE LET w == write_cache(st.cache, dataset)
            IN IF ~w.ok
               THEN Abort([st EXCEPT !.value = results], w.error, log,
                          Append(st.trace, Visit(dataset, "cache_write_failed", file_name, r)))
               ELSE Continue(st, results,
                             Append(log, Entry("info", "cached", dataset, dataset \o ".parquet")),
                             w.value, Append(st.trace, Visit(dataset, "loaded", file_name, r)))

\* the body of the loop for one dataset, from the file name on
visit_file(st, dataset, file_name, data_dir, schema_) ==
    IF file_name = ""
    THEN Continue(st, st.value,
                  Append(st.log, Entry("warning", "missing_file_name", dataset, "")),
                  st.cache, Append(st.trace, Visit(dataset, "no_file_name", "", NoLoad)))
    ELSE IF file_is_absent(file_name, data_dir)
    THEN Continue(st, st.value,
                  Append(st.log, Entry("warning", "file_not_found", dataset, file_name)),
                  st.cache, Append(st.trace, Visit(dataset, "file_not_found", file_name, NoLoad)))
    ELSE LET r == load_dataset_frame(dataset, Get(data_dir.files, file_name, [state |-> "missing"]),
                                     schema_)
         IN IF ~r.ok THEN on_load_error(st, dataset, file_name, r)
            ELSE on_load_success(st, dataset, file_name, r)

\* one turn of "for dataset in sorted(schema.dataset_names)": ".get" on a
\* dataset entry or a source value that is no mapping is an AttributeError,
\* raised outside the try block
bulk_visit(st, data_dir, schema_) ==
    LET dataset == Head(st.todo)
        block == OrEmptyDict(Get(schema_.datasets_yaml, "datasets", Dict(EmptyDict)).value)
        dataset_cfg == OrEmptyDict(Get(block, dataset, EmptyDict))
        malformed == Abort(st, [kind |-> "AttributeError", what |-> "not_a_mapping"], st.log,
                           Append(st.trace, Visit(dataset, "malformed", "", NoLoad)))
    IN IF IsScalar(dataset_cfg) THEN malformed
       ELSE LET source_cfg == OrEmptyDict(Get(dataset_cfg, "source", Scalar("")))
            IN IF IsScalar(source_cfg) THEN malformed
               ELSE visit_file(st, dataset, Get(source_cfg, "file_name", ""), data_dir, schema_)

\* after the loop: "logger.info('Bulk load complete ...'); return results"
bulk_return(st) ==
    BulkFrame("returned", <<>>, st.value,
              Append(st.log, Entry("info", "complete", "", "")), st.cache, NoError, st.trace)

(***************************************************************************)
(* The schema sources on disk.                                             *)
(***************************************************************************)
MissingFile == [state |-> "missing"]

Directory == [state |-> "directory"]

\* datasets.yaml: source settings of one dataset
CsvSource(file_name) == [source |-> [kind |-> "csv", file_name |-> file_name]]

DatasetBlocks ==
    { [d \in D |-> CsvSource(d \o ".csv")] : D \in {{"a"}, {"a", "b"}} }

YamlDocuments ==
    { [datasets |-> Dict(b)] : b \in DatasetBlocks }
    \cup { [datasets |-> Dict(b), id_column_aliases |-> Dict([participant_id |-> <<"SubjID", "PID">>])] :
              b \in DatasetBlocks }
    \cup { [datasets |-> Dict([d \in {"a", "b"} |-> CsvSource(d \o ".csv")]),
            id_column_aliases |-> v] : v \in {NotADict, EmptyDocument} }
    \cup { [datasets |-> NotADict], [participant_id_column |-> "participant_id"] }

YamlFiles ==
    {MissingFile, Directory, [state |-> "file", parses |-> FALSE, data |-> EmptyDocument]}
    \cup { [state |-> "file", parses |-> TRUE, data |-> d] : d \in {NotADict, EmptyDocument} }
    \cup { [state |-> "file", parses |-> TRUE, data |-> Dict(doc)] : doc \in YamlDocuments }

\* variables.csv: the rows a well-formed table may hold
VarRow(d, src, canon, req) ==
    [dataset |-> d, source_column |-> src, variable_name |-> canon,
     is_required |-> req, sql_type |-> "TEXT"]

CleanVarRows ==
    { VarRow(d, src, canon, req) :
        d \in {"a"}, src \in {"SubjID", "Age"},
        canon \in {"participant_id", "age"}, req \in {"true", ""} }
    \cup { VarRow(d, src, canon, "") :
        d \in {"b", "z"}, src \in {"SubjID", "Age"}, canon \in {"participant_id", "age"} }

\* rows with padded or blank fields
RawVarRows ==
    CleanVarRows
    \cup { VarRow(" a ", "Age ", " age", " Yes "), VarRow("a", " ", "age", "true"),
           VarRow("", "Age", "age", "") }

SeqsUpTo(S, n) == UNION { [1..k -> S] : k \in 0..n }

CsvFiles ==
    {MissingFile, Directory,
     [state |-> "file", readable |-> FALSE, fieldnames |-> {}, rows |-> <<>>],
     [state |-> "file", readable |-> TRUE,
      fieldnames |-> required_headers \ {"sql_type", "is_required"}, rows |-> <<>>]}
    \cup { [state |-> "file", readable |-> TRUE, fieldnames |-> required_headers, rows |-> rs] :
              rs \in SeqsUpTo(RawVarRows, MaxVarRows) }

(***************************************************************************)
(* Registry construction: one run of load_schema_registry over the schema  *)
(* sources found on disk.                                                  *)
(***************************************************************************)
NotCalled ==
    [ok |-> FALSE, value |-> EmptyDict, error |-> [kind |-> "not_called"],
     log |-> <<>>, io |-> <<>>, trace |-> <<>>]

NoCall == [dataset |-> "", file |-> MissingFile]

Called(r) == r.error.kind # "not_called"

Failed(r) == Called(r) /\ ~r.ok

Init ==
    /\ yaml_file \in YamlFiles
    /\ csv_file \in CsvFiles
    /\ schema = NotCalled
    /\ call = NoCall
    /\ out = NotCalled

LoadSchemaRegistry ==
    /\ ~Called(schema)
    /\ schema' = load_schema_registry(yaml_file, csv_file)
    /\ UNCHANGED <<yaml_file, csv_file, call, out>>

Next == LoadSchemaRegistry

Spec == Init /\ [][Next]_vars

(***************************************************************************)
(* Registry construction, twice over the same schema sources.              *)
(***************************************************************************)
LoadSchemaRegistryAgain ==
    /\ Called(schema)
    /\ ~Called(out)
    /\ out' = load_schema_registry(yaml_file, csv_file)
    /\ UNCHANGED <<yaml_file, csv_file, schema, call>>

NextTwice == LoadSchemaRegistry \/ LoadSchemaRegistryAgain

SpecTwice == Init /\ [][NextTwice]_vars

(***************************************************************************)
(* Registry construction over a variables table as a file may lay it out:  *)
(* blank, short and over-long lines, padded fields, requiredness tokens    *)
(* and type tags; then once more over the same lines in another order.     *)
(***************************************************************************)
TableYamlFiles ==
    { [state |-> "file", parses |-> TRUE,
       data |-> Dict([datasets |-> Dict([d \in {"a", "b"} |-> CsvSource(d \o ".csv")])])] }

TableRow(d, src, canon, req, type) ==
    [dataset |-> d, source_column |-> src, variable_name |-> canon,
     is_required |-> req, sql_type |-> type]

\* values of the is_required column
RequiredTokens == {"true", "1", "yes", "y", "TRUE", " Yes ", "", "false", "no", "t"}

TokenRows ==
    { TableRow("a", "Age", "age", t, "TEXT") : t \in RequiredTokens }
    \cup { TableRow("b", "Age", "age", t, "TEXT") : t \in {"yes", "t"} }

\* rows that repeat a pair with another mark or type tag, rows of a second
\* variable, and a row that gives a source column a second canonical name
TypedRows ==
    { TableRow("a", "Age", "age", req, type) :
        req \in {"y", "no"}, type \in {"integer", "text"} }
    \cup { TableRow("a", "PID", "participant_id", req, "text") : req \in {"y", "no"} }
    \cup { TableRow("a", "Age", "participant_id", "no", "text") }

\* an empty line, a line of blanks, lines that stop early, a line with one
\* field too many, a line with padded fields, a line with empty key fields
MalformedLines ==
    { EmptyDict,
      TableRow("   ", None, None, None, None),
      TableRow("a", "PID", "participant_id", None, None),
      TableRow("a", "PID", None, None, None),
      Put(TableRow("a", "Age", "age", "yes", "TEXT"), None, <<"x">>),
      TableRow(" a ", "Age ", " age", " Yes ", " text "),
      TableRow("a", " ", "age", "yes", "TEXT"),
      TableRow("", "", "", "", "") }

TableLines == TokenRows \cup TypedRows \cup MalformedLines

TableFiles ==
    { [state |-> "file", readable |-> TRUE, fieldnames |-> required_headers, rows |-> ls] :
        ls \in SeqsUpTo(TableLines, MaxVarRows) }

InitTable ==
    /\ yaml_file \in TableYamlFiles
    /\ csv_file \in TableFiles
    /\ schema = NotCalled
    /\ call = NoCall
    /\ out = NotCalled

\* the same file with its lines in the order p
Reordered(file, p) == [file EXCEPT !.rows = [i \in DOMAIN file.rows |-> file.rows[p[i]]]]

LoadSchemaRegistryReordered ==
    /\ Called(schema)
    /\ ~Called(out)
    /\ \E p \in Permutations(DOMAIN csv_file.rows) :
          /\ call' = [dataset |-> "", file |-> Reordered(csv_file, p)]
          /\ out' = load_schema_registry(yaml_file, Reordered(csv_file, p))
    /\ UNCHANGED <<yaml_file, csv_file, schema>>

NextTable == LoadSchemaRegistry \/ LoadSchemaRegistryReordered

SpecTable == InitTable /\ [][NextTable]_vars

(***************************************************************************)
(* Standardization: one call of load_dataset_frame on a data file, with a  *)
(* registry that load_schema_registry returned.                            *)
(***************************************************************************)
\* the data files a call may be given
FileColumns == {"participant_id", "SubjID", "PID", "Age"}

CellValues == {NaN, " ", "S1 ", " S2"}

InjectiveSeqs(S, n) == {c \in [1..n -> S] : \A i, j \in 1..n : c[i] = c[j] => i = j}

Shapes == {sh \in (1..MaxCols) \X (0..MaxFileRows) : sh[1] * sh[2] <= MaxCells}

\* what pandas reads: labels are unique, a cell is text or missing
Frames ==
    UNION { { [columns |-> c, rows |-> rs] :
                c \in InjectiveSeqs(FileColumns, sh[1]),
                rs \in [1..sh[2] -> [1..sh[1] -> CellValues]] } : sh \in Shapes }

NoFrame == [columns |-> <<>>, rows |-> <<>>]

DataFile(size, parse, frame) ==
    [state |-> "file", size |-> size, parse |-> parse, frame |-> frame]

DataFiles ==
    {MissingFile, Directory,
     DataFile(0, "value_error", NoFrame),
     DataFile(1, "value_error", NoFrame),
     DataFile(1, "other_error", NoFrame)}
    \cup { DataFile(1, "ok", f) : f \in Frames }

\* the schema sources of the registry in use: the variables table holds rows
\* of dataset "a", taken in a fixed order
IngestYamlDocuments ==
    LET block == Dict([d \in {"a", "b"} |-> CsvSource(d \o ".csv")])
    IN { [datasets |-> block],
         [datasets |-> block,
          id_column_aliases |-> Dict([participant_id |-> <<"PID", "SubjID">>])] }

IngestRowOrder ==
    << VarRow("a", "SubjID", "participant_id", ""),
       VarRow("a", "SubjID", "age", ""),
       VarRow("a", "Age", "age", "true"),
       VarRow("a", "Age", "age", ""),
       VarRow("a", "Age", "participant_id", ""),
       VarRow("a", "participant_id", "age", ""),
       VarRow("a", "participant_id", "participant_id", "") >>

IngestTables ==
    { SelectSeq(IngestRowOrder, LAMBDA r : r \in S) :
        S \in {T \in SUBSET Range(IngestRowOrder) : Cardinality(T) <= MaxVarRows} }

CallDatasets == {"a", "z"}

InitIngest ==
    /\ yaml_file \in { [state |-> "file", parses |-> TRUE, data |-> Dict(doc)] :
                          doc \in IngestYamlDocuments }
    /\ csv_file \in { [state |-> "file", readable |-> TRUE,
                        fieldnames |-> required_headers, rows |-> rs] : rs \in IngestTables }
    /\ schema = load_schema_registry(yaml_file, csv_file)
    /\ schema.ok
    /\ call = NoCall
    /\ out = NotCalled

LoadDatasetFrame ==
    /\ schema.ok
    /\ ~Called(out)
    /\ \E dataset \in CallDatasets, file \in DataFiles :
          /\ call' = [dataset |-> dataset, file |-> file]
          /\ out' = load_dataset_frame(dataset, file, schema.value)
          /\ schema' = [schema EXCEPT !.value = registry_after_load(out', dataset, @)]
    /\ UNCHANGED <<yaml_file, csv_file>>

NextIngest == LoadDatasetFrame

SpecIngest == InitIngest /\ [][NextIngest]_vars

(***************************************************************************)
(* Standardization stage by stage: one call of load_dataset_frame, with    *)
(* registries and files that can fail it at every stage, several at once.  *)
(***************************************************************************)
\* datasets.yaml: a is a csv dataset, the source of b names no kind
StageYamlDocuments ==
    LET block == Dict([d \in {"a", "b"} |->
                         IF d = "a" THEN CsvSource("a.csv")
                         ELSE [source |-> [file_name |-> "b.csv"]]])
    IN { [datasets |-> block] }
       \cup { [datasets |-> block, id_column_aliases |-> Dict([participant_id |-> al])] :
                al \in {<<"SubjID">>, <<"Sex", "SubjID">>} }

StageRowOrder ==
    << VarRow("a", "SubjID", "participant_id", ""),
       VarRow("a", "Age", "age", "true"),
       VarRow("a", "Sex", "age", ""),
       VarRow("b", "Age", "age", "") >>

Reverse(sq) == [i \in DOMAIN sq |-> sq[Len(sq) + 1 - i]]

\* variables.csv: up to MaxVarRows of the rows, in the one order or the other
StageTables ==
    LET picked == { SelectSeq(StageRowOrder, LAMBDA r : r \in S) :
                      S \in {T \in SUBSET Range(StageRowOrder) : Cardinality(T) <= MaxVarRows} }
    IN picked \cup {Reverse(t) : t \in picked}

\* frames of up to MaxCols columns and at most one row
StageFrames ==
    UNION { { [columns |-> c, rows |-> rs] :
                c \in InjectiveSeqs({"SubjID", "Age", "Sex"}, n),
                rs \in {<<>>} \cup { <<row>> : row \in [1..n -> {"S01", "34", " "}] } } :
            n \in 1..MaxCols }

StageFiles ==
    {MissingFile, Directory,
     DataFile(0, "value_error", NoFrame),
     DataFile(1, "value_error", NoFrame),
     DataFile(1, "other_error", NoFrame)}
    \cup { DataFile(1, "ok", f) : f \in StageFrames }

InitStages ==
    /\ yaml_file \in { [state |-> "file", parses |-> TRUE, data |-> Dict(doc)] :
                          doc \in StageYamlDocuments }
    /\ csv_file \in { [state |-> "file", readable |-> TRUE,
                        fieldnames |-> required_headers, rows |-> rs] : rs \in StageTables }
    /\ schema = load_schema_registry(yaml_file, csv_file)
    /\ schema.ok
    /\ call = NoCall
    /\ out = NotCalled

StandardizeFile ==
    /\ schema.ok
    /\ ~Called(out)
    /\ \E dataset \in {"a", "b", "z"}, file \in StageFiles :
          /\ call' = [dataset |-> dataset, file |-> file]
          /\ out' = load_dataset_frame(dataset, file, schema.value)
          /\ schema' = [schema EXCEPT !.value = registry_after_load(out', dataset, @)]
    /\ UNCHANGED <<yaml_file, csv_file>>

NextStages == StandardizeFile

SpecStages == InitStages /\ [][NextStages]_vars

(***************************************************************************)
(* Source configuration: one call of load_dataset_frame for a dataset      *)
(* whose source mapping in datasets.yaml has any kind, sheet name and       *)
(* header row, or none.                                                    *)
(***************************************************************************)
\* a mapping with the key k or without it
OptionalKey(k, values) == {EmptyDict} \cup { [x \in {k} |-> v] : v \in values }

Merge(f, g) == [x \in DOMAIN f \cup DOMAIN g |-> IF x \in DOMAIN f THEN f[x] ELSE g[x]]

SourceKinds == {None, "", "csv", " CSV ", "xlsx", "XLSX", "parquet"}

SheetNames == {None, " ", "Sheet1"}

\* header_row: null, integers, floats (in tenths) and texts
HeaderRows ==
    { [type |-> "none"],
      [type |-> "int", value |-> 0], [type |-> "int", value |-> 2],
      [type |-> "int", value |-> -1],
      [type |-> "float", tenths |-> 15], [type |-> "float", tenths |-> -5],
      [type |-> "float", tenths |-> -20],
      [type |-> "str", value |-> "2"], [type |-> "str", value |-> "x"] }

SourceConfigs ==
    { Merge(Merge(k, sh), h) :
        k \in OptionalKey("kind", SourceKinds),
        sh \in OptionalKey("sheet_name", SheetNames),
        h \in OptionalKey("header_row", HeaderRows) }

SourceYamlDocuments ==
    { [datasets |-> Dict([d \in {"a"} |-> [source |-> cfg]])] : cfg \in SourceConfigs }

SourceTable == << VarRow("a", "Age", "age", "true") >>

SourceFiles ==
    { MissingFile,
      DataFile(1, "value_error", NoFrame),
      DataFile(1, "ok", [columns |-> <<"participant_id", "Age">>, rows |-> << <<"S01", "34">> >>]) }

InitSource ==
    /\ yaml_file \in { [state |-> "file", parses |-> TRUE, data |-> Dict(doc)] :
                          doc \in SourceYamlDocuments }
    /\ csv_file = [state |-> "file", readable |-> TRUE,
                   fieldnames |-> required_headers, rows |-> SourceTable]
    /\ schema = load_schema_registry(yaml_file, csv_file)
    /\ schema.ok
    /\ call = NoCall
    /\ out = NotCalled

LoadConfiguredFile ==
    /\ schema.ok
    /\ ~Called(out)
    /\ \E dataset \in {"a", "z"}, file \in SourceFiles :
          /\ call' = [dataset |-> dataset, file |-> file]
          /\ out' = load_dataset_frame(dataset, file, schema.value)
          /\ schema' = [schema EXCEPT !.value = registry_after_load(out', dataset, @)]
    /\ UNCHANGED <<yaml_file, csv_file>>

NextSource == LoadConfiguredFile

SpecSource == InitSource /\ [][NextSource]_vars

(***************************************************************************)
(* Bulk import: calls of bulk_load_datasets, each a run of its loop one    *)
(* dataset at a time, and calls of load_dataset_frame, one after another   *)
(* on one registry.                                                        *)
(***************************************************************************)
\* datasets.yaml: the entries of datasets a and b, well formed or not
EntriesOfA == {CsvSource("a.csv"), [source |-> [kind |-> "csv"]], Scalar(""), Scalar("text")}

EntriesOfB == {CsvSource("b.csv"), [source |-> [kind |-> "csv", file_name |-> ""]],
               [source |-> Scalar("text")]}

BulkYamlDocuments ==
    { [datasets |-> Dict([d \in {"a", "b"} |-> IF d = "a" THEN ea ELSE eb])] :
         ea \in EntriesOfA, eb \in EntriesOfB }

\* variables.csv: rows of datasets a and b, taken in a fixed order
BulkRowOrder ==
    << VarRow("b", "participant_id", "participant_id", ""),
       VarRow("a", "participant_id", "participant_id", ""),
       VarRow("a", "Age", "age", "true"),
       VarRow("b", "Age", "age", "true") >>

BulkTables ==
    { SelectSeq(BulkRowOrder, LAMBDA r : r \in S) :
        S \in {T \in SUBSET Range(BulkRowOrder) : Cardinality(T) <= MaxVarRows} }

\* the files a data directory may hold under an expected name
BulkFiles ==
    {Directory,
     DataFile(1, "value_error", NoFrame),
     DataFile(1, "ok", [columns |-> <<"participant_id">>, rows |-> << <<"S01">> >>]),
     DataFile(1, "ok", [columns |-> <<"participant_id", "Age">>, rows |-> << <<"S01", "34">> >>])}

DataDirs ==
    {MissingFile, DataFile(1, "ok", NoFrame)}
    \cup { [state |-> "directory", files |-> fs] :
              fs \in UNION { [N -> BulkFiles] : N \in SUBSET {"a.csv", "b.csv"} } }

CacheDirs ==
    {NoCacheDir,
     [state |-> "file", unwritable |-> {}, written |-> <<>>],
     [state |-> "missing", unwritable |-> {}, written |-> <<>>],
     [state |-> "directory", unwritable |-> {}, written |-> <<>>],
     [state |-> "directory", unwritable |-> {"a.parquet"}, written |-> <<>>]}

NoBulkCall ==
    [dataset |-> "", file |-> MissingFile, data_dir |-> MissingFile, cache_dir |-> NoCacheDir]

Idle == BulkFrame("idle", <<>>, <<>>, <<>>, NoCacheDir, [kind |-> "not_called"], <<>>)

\* what a call of load_dataset_frame gave, as a frame
SingleFrame(r) ==
    [ok |-> r.ok, value |-> r.value, error |-> r.error, log |-> r.log, trace |-> r.trace,
     pc |-> "single", todo |-> <<>>, cache |-> NoCacheDir]

InitBulk ==
    /\ yaml_file \in { [state |-> "file", parses |-> TRUE, data |-> Dict(doc)] :
                          doc \in BulkYamlDocuments }
    /\ csv_file \in { [state |-> "file", readable |-> TRUE,
                        fieldnames |-> required_headers, rows |-> rs] : rs \in BulkTables }
    /\ schema = load_schema_registry(yaml_file, csv_file)
    /\ schema.ok
    /\ call = NoBulkCall
    /\ out = Idle

\* bulk_load_datasets is called and runs up to its loop
BulkLoadDatasets ==
    /\ out.pc # "loop"
    /\ \E data_dir \in DataDirs, cache_dir \in CacheDirs :
          /\ call' = [NoBulkCall EXCEPT !.data_dir = data_dir, !.cache_dir = cache_dir]
          /\ out' = bulk_start(data_dir, schema.value, cache_dir)
    /\ UNCHANGED <<yaml_file, csv_file, schema>>

\* one turn of the loop
BulkVisitDataset ==
    /\ out.pc = "loop"
    /\ out.todo # <<>>
    /\ out' = bulk_visit(out, call.data_dir, schema.value)
    /\ LET t == out'.trace[Len(out'.trace)]
       IN schema' = [schema EXCEPT !.value = registry_after_load(t.load, t.dataset, @)]
    /\ UNCHANGED <<yaml_file, csv_file, call>>

\* the loop is over and the results are returned
BulkReturn ==
    /\ out.pc = "loop"
    /\ out.todo = <<>>
    /\ out' = bulk_return(out)
    /\ UNCHANGED <<yaml_file, csv_file, schema, call>>

\* load_dataset_frame is called on one file
LoadOneFrame ==
    /\ out.pc # "loop"
    /\ \E dataset \in {"a", "b", "z"}, file \in BulkFiles \cup {MissingFile} :
          /\ call' = [NoBulkCall EXCEPT !.dataset = dataset, !.file = file]
          /\ out' = SingleFrame(load_dataset_frame(dataset, file, schema.value))
          /\ schema' = [schema EXCEPT !.value = registry_after_load(out', dataset, @)]
    /\ UNCHANGED <<yaml_file, csv_file>>

NextBulk == BulkLoadDatasets \/ BulkVisitDataset \/ BulkReturn \/ LoadOneFrame

SpecBulk == InitBulk /\ [][NextBulk]_vars

(***************************************************************************)
(* What the schema sources on disk say, read off the files themselves.     *)
(***************************************************************************)
\* the definitions document parses to a mapping (or is empty)
YamlLoads ==
    /\ yaml_file.state = "file"
    /\ yaml_file.parses
    /\ yaml_file.data.type \in {"dict", "none"}

\* the keys of the document's datasets mapping, if it has one
HasDatasetsMapping ==
    /\ YamlLoads
    /\ "datasets" \in DOMAIN yaml_file.data.value
       => yaml_file.data.value.datasets.type = "dict"

DefinedDatasets ==
    IF HasDatasetsMapping /\ "datasets" \in DOMAIN yaml_file.data.value
    THEN DOMAIN yaml_file.data.value.datasets.value
    ELSE {}

\* the variables table is readable and carries every required header
TableReadable ==
    /\ csv_file.state = "file"
    /\ csv_file.readable
    /\ required_headers \subseteq csv_file.fieldnames

\* the rows of the table with their fields trimmed
TableRows ==
    IF TableReadable
    THEN [i \in DOMAIN csv_file.rows |->
            [k \in DOMAIN csv_file.rows[i] |-> Strip(csv_file.rows[i][k])]]
    ELSE <<>>

\* no row has a blank dataset, source_column or variable_name
TableLoads ==
    /\ TableReadable
    /\ \A i \in DOMAIN TableRows :
          /\ TableRows[i].dataset # ""
          /\ TableRows[i].source_column # ""
          /\ TableRows[i].variable_name # ""

SourcesLoad == HasDatasetsMapping /\ TableLoads

\* dataset names used by a variable row that the definitions do not define
UndefinedDatasets ==
    {TableRows[i].dataset : i \in DOMAIN TableRows} \ DefinedDatasets

\* rows i < j of one dataset with one source column and two canonical names
Conflict(i, j) ==
    /\ i < j
    /\ TableRows[i].dataset = TableRows[j].dataset
    /\ TableRows[i].source_column = TableRows[j].source_column
    /\ TableRows[i].variable_name # TableRows[j].variable_name

HasConflict == \E i, j \in DOMAIN TableRows : Conflict(i, j)

(***************************************************************************)
(* C1..C3: registry construction.                                          *)
(***************************************************************************)
\* C1: load_schema_registry returns no registry whenever a variables row
\* names a dataset that the definitions document does not define; the
\* schema-mismatch error, which is the failure whenever both sources load,
\* lists exactly the undefined dataset names; a registry is returned only
\* when every dataset name used by a row is defined.
C1_UndefinedDatasetFails ==
    Called(schema) =>
        /\ schema.ok => UndefinedDatasets = {} /\ SourcesLoad
        /\ (SourcesLoad /\ UndefinedDatasets # {}) =>
              /\ ~schema.ok
              /\ schema.error.what = "schema_mismatch"
        /\ (~schema.ok /\ schema.error.what = "schema_mismatch") =>
              /\ UndefinedDatasets # {}
              /\ Range(schema.error.missing_in_yaml) = UndefinedDatasets
              /\ Len(schema.error.missing_in_yaml) = Cardinality(UndefinedDatasets)

\* C1 witness: construction failed naming two undefined datasets
C1_Witness ==
    /\ Failed(schema)
    /\ schema.error.what = "schema_mismatch"
    /\ Cardinality(UndefinedDatasets) = 2
    /\ DefinedDatasets # {}

\* C2: two rows of one dataset with the same source_column and different
\* variable_name make construction fail; the ambiguity error, which is the
\* failure whenever the sources load and every dataset is defined, names the
\* dataset, the source column and two conflicting canonical names of rows of
\* the table; in a returned registry each dataset's map sends the source
\* column of every one of its rows to that row's canonical name.
C2_AmbiguousMappingFails ==
    Called(schema) =>
        /\ HasConflict => ~schema.ok
        /\ (SourcesLoad /\ UndefinedDatasets = {} /\ HasConflict) =>
              schema.error.what = "ambiguous_mapping"
        /\ (~schema.ok /\ schema.error.what = "ambiguous_mapping") =>
              \E i, j \in DOMAIN TableRows :
                  /\ Conflict(i, j)
                  /\ schema.error.dataset = TableRows[i].dataset
                  /\ schema.error.source_column = TableRows[i].source_column
                  /\ schema.error.first = TableRows[i].variable_name
                  /\ schema.error.second = TableRows[j].variable_name
        /\ schema.ok =>
              \A i \in DOMAIN TableRows :
                  LET m == schema.value.source_to_canonical_by_dataset
                      r == TableRows[i]
                  IN /\ r.dataset \in DOMAIN m
                     /\ r.source_column \in DOMAIN m[r.dataset]
                     /\ m[r.dataset][r.source_column] = r.variable_name

\* C2 witness: construction failed on an ambiguous source column
C2_Witness ==
    /\ Failed(schema)
    /\ schema.error.what = "ambiguous_mapping"
    /\ HasConflict

\* C3 as stated: in a returned registry every name of dataset_names is a key
\* of source_to_canonical_by_dataset and of required_vars_by_dataset.
C3_EveryDatasetKeyed ==
    (Called(schema) /\ schema.ok) =>
        \A d \in schema.value.dataset_names :
            /\ d \in DOMAIN schema.value.source_to_canonical_by_dataset
            /\ d \in DOMAIN schema.value.required_vars_by_dataset

\* C3 amended: in a returned registry the keys of both lookup maps are
\* exactly the datasets that have at least one variables row, all of them
\* names of dataset_names; a defined dataset without rows is a key of neither.
C3_DatasetsWithRowsKeyed ==
    (Called(schema) /\ schema.ok) =>
        LET withRows == {TableRows[i].dataset : i \in DOMAIN TableRows}
        IN /\ DOMAIN schema.value.source_to_canonical_by_dataset = withRows
           /\ DOMAIN schema.value.required_vars_by_dataset = withRows
           /\ withRows \subseteq schema.value.dataset_names

\* C3 witness: a registry with one dataset that has rows and one that has none
C3_Witness ==
    /\ Called(schema) /\ schema.ok
    /\ DOMAIN schema.value.source_to_canonical_by_dataset # {}
    /\ schema.value.dataset_names \ DOMAIN schema.value.source_to_canonical_by_dataset # {}

(***************************************************************************)
(* C4..C10: standardization of one file.                                   *)
(***************************************************************************)
\* what the call was given, and what each step of it gave
Ran(stage) == \E i \in DOMAIN out.trace : out.trace[i].stage = stage

StageOf(stage) == out.trace[CHOOSE i \in DOMAIN out.trace : out.trace[i].stage = stage]

Canonical == schema.value.participant_id_column

Aliases == Get(schema.value.id_aliases, Canonical, <<>>)

Mapping == Get(schema.value.source_to_canonical_by_dataset, call.dataset, EmptyDict)

Required == Get(schema.value.required_vars_by_dataset, call.dataset, {})

Indices(sq) == [i \in DOMAIN sq |-> i]

\* a cell that is missing, empty or whitespace only
IsBlank(v) == v = NaN \/ \A i \in 1..Len(v) : SubSeq(v, i, i) \in {" ", "\t", "\n", "\r"}

\* w is v without its leading and trailing whitespace
IsTrimOf(w, v) ==
    \E i, j \in 1..Len(v) :
        /\ i <= j
        /\ w = SubSeq(v, i, j)
        /\ SubSeq(v, i, i) \notin {" ", "\t", "\n", "\r"}
        /\ SubSeq(v, j, j) \notin {" ", "\t", "\n", "\r"}
        /\ \A k \in (1..(i - 1)) \cup ((j + 1)..Len(v)) :
              SubSeq(v, k, k) \in {" ", "\t", "\n", "\r"}

\* C4: a call with a dataset name that is not in dataset_names fails with
\* the unknown-dataset error at the first step, and no file-system access
\* (exists, is_file, stat, read) has been made, whatever the file is.
C4_UnknownDatasetBeforeFileAccess ==
    (Called(out) /\ call.dataset \notin schema.value.dataset_names) =>
        /\ ~out.ok
        /\ out.error.what = "unknown_dataset"
        /\ out.error.dataset = call.dataset
        /\ out.io = <<>>
        /\ Len(out.trace) = 1

\* C4 witness: an unknown dataset requested for a file that would load
C4_Witness ==
    /\ Called(out)
    /\ call.dataset \notin schema.value.dataset_names
    /\ call.file.state = "file"
    /\ call.file.parse = "ok"
    /\ Len(call.file.frame.rows) = 2
    /\ out.error.what = "unknown_dataset"

\* C5 as stated: a returned dataset has the identifier column, no blank
\* identifier value, no two columns of one name, and every column is the
\* identifier or a canonical name the mapping gives to a column of the file.
C5_ReturnedDatasetWellFormed ==
    (Called(out) /\ out.ok) =>
        LET df == out.value
        IN /\ Canonical \in Range(df.columns)
           /\ \A r \in DOMAIN df.rows, j \in DOMAIN df.columns :
                 df.columns[j] = Canonical => ~IsBlank(df.rows[r][j])
           /\ \A i, j \in DOMAIN df.columns : df.columns[i] = df.columns[j] => i = j
           /\ \A j \in DOMAIN df.columns :
                 \/ df.columns[j] = Canonical
                 \/ \E c \in Range(call.file.frame.columns) \cap DOMAIN Mapping :
                       Mapping[c] = df.columns[j]

\* C6 as stated: the frame produced by the rename-and-filter step (whose
\* input always holds the canonical identifier column) holds a column named
\* with the canonical identifier name, whatever the mapping.
C6_RenameKeepsIdentifier ==
    (Called(out) /\ Ran("rename") /\ StageOf("rename").ok) =>
        /\ Canonical \in Range(StageOf("identifier").value.columns)
        /\ Canonical \in Range(StageOf("rename").value.columns)

\* C7: identifier resolution.  If the canonical name is a column of the file
\* the labels stay as they are; otherwise the first entry of the alias list,
\* in list order, that is a column of the file is relabelled canonical;
\* otherwise the step fails naming the canonical name, the alias list and
\* the columns found.
C7_IdentifierResolution ==
    (Called(out) /\ Ran("identifier")) =>
        LET cols == StageOf("read").value.columns
            t == StageOf("identifier")
            present == {i \in DOMAIN Aliases : Aliases[i] \in Range(cols)}
        IN IF Canonical \in Range(cols)
           THEN t.ok /\ t.value.columns = cols
           ELSE IF present # {}
           THEN LET a == Aliases[CHOOSE i \in present : \A k \in present : i <= k]
                IN /\ t.ok
                   /\ t.value.columns =
                        [j \in DOMAIN cols |-> IF cols[j] = a THEN Canonical ELSE cols[j]]
           ELSE /\ ~t.ok
                /\ ~out.ok
                /\ out.error = t.error
                /\ t.error.what = "missing_id_column"
                /\ t.error.canonical = Canonical
                /\ t.error.aliases = Aliases
                /\ t.error.columns = cols

\* C7 witness: two aliases in the file, the alias list naming them in the
\* other order, and the first of the list taken
C7_Witness ==
    /\ Called(out) /\ Ran("identifier") /\ StageOf("identifier").ok
    /\ Aliases = <<"PID", "SubjID">>
    /\ StageOf("read").value.columns = <<"SubjID", "PID">>
    /\ StageOf("identifier").value.columns = <<"SubjID", "participant_id">>

\* C8: once the identifier column is resolved, the step succeeds and keeps
\* exactly the rows whose identifier is not missing, empty or whitespace
\* only, in their order, repeated identifiers included, the identifier
\* trimmed and every other cell as it was; the count of dropped rows is logged
\* when it is positive and equals input rows minus output rows.
C8_BlankIdentifierRowsDropped ==
    (Called(out) /\ Ran("identifier")
        /\ (Canonical \in Range(StageOf("read").value.columns)
              \/ \E i \in DOMAIN Aliases : Aliases[i] \in Range(StageOf("read").value.columns))) =>
        /\ StageOf("identifier").ok
        /\ LET inp == StageOf("read").value
               res == StageOf("identifier").value
               p == CHOOSE j \in DOMAIN res.columns : res.columns[j] = Canonical
               keptIdx == SelectSeq(Indices(inp.rows), LAMBDA i : ~IsBlank(inp.rows[i][p]))
               dropped == Len(inp.rows) - Len(res.rows)
               logged == SelectSeq(out.log, LAMBDA e : e.what = "dropped_rows")
           IN /\ Len(res.rows) = Len(keptIdx)
              /\ \A k \in DOMAIN keptIdx : \A j \in DOMAIN res.columns :
                    IF j = p
                    THEN IsTrimOf(res.rows[k][j], inp.rows[keptIdx[k]][j])
                    ELSE res.rows[k][j] = inp.rows[keptIdx[k]][j]
              /\ logged = IF dropped > 0 THEN <<Info("dropped_rows", dropped)>> ELSE <<>>

\* C8 witness: of two rows the first has a whitespace-only identifier and is
\* dropped, the second is kept with its identifier trimmed
C8_Witness ==
    /\ Called(out) /\ Ran("identifier") /\ StageOf("identifier").ok
    /\ StageOf("read").value.columns = <<"participant_id">>
    /\ StageOf("read").value.rows = << <<" ">>, <<" S2">> >>
    /\ StageOf("identifier").value.rows = << <<"S2">> >>

\* the labels the kept columns carry after renaming, by position of the input
RenamedLabel(c) == IF c \in DOMAIN Mapping THEN Mapping[c] ELSE c

KeptColumns(cols) ==
    SelectSeq(cols, LAMBDA c : c \in DOMAIN Mapping \/ c = Canonical)

\* C9: if two or more kept columns carry the same name after renaming, the
\* rename step and the call fail with the duplicate-columns error, which
\* names every duplicated canonical name and the original column list;
\* otherwise the rename step succeeds.
C9_DuplicateCanonicalFails ==
    (Called(out) /\ Ran("rename")) =>
        LET inp == StageOf("identifier").value.columns
            kept == KeptColumns(inp)
            dupNames == {RenamedLabel(kept[i]) : i \in
                            {i \in DOMAIN kept : \E j \in DOMAIN kept :
                                j # i /\ RenamedLabel(kept[j]) = RenamedLabel(kept[i])}}
            t == StageOf("rename")
        IN IF dupNames # {}
           THEN /\ ~t.ok
                /\ ~out.ok
                /\ out.error = t.error
                /\ t.error.what = "duplicate_columns"
                /\ Range(t.error.dups) = dupNames
                /\ t.error.original_cols = inp
           ELSE t.ok

\* C9 witness: two source columns of the file mapped to one canonical name
C9_Witness ==
    /\ Called(out) /\ Ran("rename") /\ ~StageOf("rename").ok
    /\ out.error.what = "duplicate_columns"
    /\ out.error.dups = <<"age">>
    /\ Len(out.error.original_cols) = 2

\* C10: a call that reaches the validation returns a dataset exactly when
\* every name of the dataset's required set plus the identifier column is a
\* column of the renamed frame; otherwise it fails and the error lists
\* exactly the missing names; every returned dataset passed the validation
\* and holds every required name.
C10_MissingRequiredFails ==
    Called(out) =>
        /\ out.ok => Ran("validate")
        /\ Ran("validate") =>
              LET cols == Range(StageOf("rename").value.columns)
                  need == Required \cup {Canonical}
                  missing == need \ cols
              IN /\ out.ok <=> missing = {}
                 /\ out.ok => need \subseteq Range(out.value.columns)
                 /\ missing # {} =>
                       /\ out.error.what = "missing_required"
                       /\ Range(out.error.missing) = missing
                       /\ Len(out.error.missing) = Cardinality(missing)

\* C10 witness: the required canonical name age is the one missing
C10_Witness ==
    /\ Called(out) /\ Ran("validate") /\ ~out.ok
    /\ out.error.what = "missing_required"
    /\ out.error.missing = <<"age">>
    /\ Required = {"age"}

(***************************************************************************)
(* C11..C15, C18, C19: bulk import.  What a run was given, read off the    *)
(* definitions document and the data directory.                            *)
(***************************************************************************)
InRun == out.pc \in {"loop", "returned", "raised"}

Returned == out.pc = "returned"

\* the entry of dataset d in the definitions document
EntryOf(d) == yaml_file.data.value.datasets.value[d]

\* the entry and its source value are mappings, null or absent
WellFormed(d) ==
    /\ IsScalar(EntryOf(d)) => EntryOf(d) = Scalar("")
    /\ (~IsScalar(EntryOf(d)) /\ "source" \in DOMAIN EntryOf(d) /\ IsScalar(EntryOf(d).source))
          => EntryOf(d).source = Scalar("")

\* the expected file name of d, "" when the document gives none
ExpectedFile(d) ==
    IF /\ ~IsScalar(EntryOf(d))
       /\ "source" \in DOMAIN EntryOf(d)
       /\ ~IsScalar(EntryOf(d).source)
       /\ "file_name" \in DOMAIN EntryOf(d).source
    THEN EntryOf(d).source.file_name
    ELSE ""

\* the expected file of d is in the data directory
Present(d) ==
    /\ ExpectedFile(d) # ""
    /\ call.data_dir.state = "directory"
    /\ ExpectedFile(d) \in DOMAIN call.data_dir.files

\* what load_dataset_frame gives for d and its expected file
Standardized(d) ==
    load_dataset_frame(d, call.data_dir.files[ExpectedFile(d)], schema.value)

Succeeds(d) == Present(d) /\ Standardized(d).ok

Visited == [i \in DOMAIN out.trace |-> out.trace[i].dataset]

\* C11: when a run returns, the keys of the returned mapping are exactly
\* the datasets whose expected file is present and standardizes, each with
\* the dataset that load_dataset_frame gives, all of them registry names; a
\* dataset whose present file fails to standardize is never a key, and no
\* run ends with an exception at the visit of such a dataset.
C11_PartialSuccess ==
    InRun =>
        /\ Returned =>
              /\ Range(Keys(out.value)) = {d \in schema.value.dataset_names : Succeeds(d)}
              /\ Range(Keys(out.value)) \subseteq schema.value.dataset_names
              /\ \A i \in DOMAIN out.value :
                    out.value[i].value = Standardized(out.value[i].key).value
        /\ \A i \in DOMAIN Visited :
              (WellFormed(Visited[i]) /\ Present(Visited[i]) /\ ~Standardized(Visited[i]).ok) =>
                  /\ Visited[i] \notin Range(Keys(out.value))
                  /\ ~(out.pc = "raised" /\ i = Len(Visited))

\* C11 witness: a run returned dataset a alone, the file of b being present
\* and lacking a required column
C11_Witness ==
    /\ Returned
    /\ Keys(out.value) = <<"a">>
    /\ Present("b")
    /\ ~Standardized("b").ok
    /\ Standardized("b").error.what = "missing_required"

\* C12 as stated: once the data directory has been accepted (and the cache
\* directory, if one is given, made), a run never ends with an exception,
\* whatever a file lookup, a standardization or a cache write gives, and a
\* run that has returned has visited every dataset of the registry.
C12_RunAlwaysReturns ==
    (InRun /\ call.data_dir.state = "directory" /\ call.cache_dir.state # "file") =>
        /\ out.pc # "raised"
        /\ Returned => Range(Visited) = schema.value.dataset_names

\* the log entries of the run that name dataset d
LoggedAbout(d) == SelectSeq(out.log, LAMBDA e : "dataset" \in DOMAIN e /\ e.dataset = d)

\* C13: a visited dataset whose entry gives no expected file name, or whose
\* expected file is not in the data directory, is skipped: it is no key of
\* the results, load_dataset_frame is not called for it, the one log entry
\* naming it is a warning (with the file name when it is the file that is
\* not there), and the run does not end with an exception at its visit.
C13_AbsentFileSkipped ==
    InRun =>
        \A i \in DOMAIN Visited :
            LET d == Visited[i]
            IN (WellFormed(d) /\ ~Present(d)) =>
                  /\ d \notin Range(Keys(out.value))
                  /\ out.trace[i].load = NoLoad
                  /\ LoggedAbout(d) =
                        <<Entry("warning",
                                IF ExpectedFile(d) = "" THEN "missing_file_name"
                                ELSE "file_not_found", d, ExpectedFile(d))>>
                  /\ ~(out.pc = "raised" /\ i = Len(Visited))

\* C13 witness: the file of a is not in the directory, a is skipped and the
\* run goes on to load b
C13_Witness ==
    /\ Returned
    /\ ExpectedFile("a") = "a.csv"
    /\ ~Present("a")
    /\ LoggedAbout("a") = <<Entry("warning", "file_not_found", "a", "a.csv")>>
    /\ Keys(out.value) = <<"b">>

Artifact(d) == d \o ".parquet"

\* C14: with a cache directory given, the directory exists from the start of
\* the loop on, at every moment each artifact written is that of a key of
\* the results, and when the run returns the artifacts written are exactly
\* the files <dataset>.parquet of the keys of the returned mapping, one
\* each, the artifact of a dataset being written exactly when its own file
\* is present and standardizes; with no cache directory nothing is written.
C14_CacheArtifacts ==
    InRun =>
        IF call.cache_dir.state = "none"
        THEN out.cache = NoCacheDir
        ELSE /\ (out.pc = "loop" \/ Returned) => out.cache.state = "directory"
             /\ Range(out.cache.written) \subseteq {Artifact(d) : d \in Range(Keys(out.value))}
             /\ Returned =>
                   /\ Range(out.cache.written) = {Artifact(d) : d \in Range(Keys(out.value))}
                   /\ Len(out.cache.written) = Len(out.value)
                   /\ \A d \in schema.value.dataset_names :
                         Artifact(d) \in Range(out.cache.written) <=> Succeeds(d)

\* C14 witness: the cache directory was not there, b failed and a was
\* loaded, and a.parquet is the one artifact
C14_Witness ==
    /\ Returned
    /\ call.cache_dir.state = "missing"
    /\ out.cache.state = "directory"
    /\ out.cache.written = <<"a.parquet">>
    /\ Present("b") /\ ~Standardized("b").ok

\* C15: no step of a call of bulk_load_datasets or of load_dataset_frame,
\* returning or raising, changes the registry: every field of it (and the
\* required names of every dataset among them) has the value that
\* load_schema_registry gave it.
C15_RegistryNeverMutated == [][schema' = schema]_vars

\* C15 witness: load_dataset_frame has validated a file of a dataset whose
\* required names in the registry do not hold the identifier
C15_Witness ==
    /\ out.pc = "single"
    /\ out.ok
    /\ call.dataset \in DOMAIN schema.value.required_vars_by_dataset
    /\ schema.value.participant_id_column
          \notin schema.value.required_vars_by_dataset[call.dataset]
    /\ schema.value.participant_id_column \in Range(out.value.columns)

\* a sequence of names in ascending order, no name twice
Ascending(names) ==
    \A i, j \in DOMAIN names :
        i < j => \E p, q \in DOMAIN NameOrder :
                    p < q /\ NameOrder[p] = names[i] /\ NameOrder[q] = names[j]

\* the dataset names of the log entries of the run, in log order
LoggedDatasets ==
    LET named == SelectSeq(out.log, LAMBDA e : "dataset" \in DOMAIN e /\ e.dataset # "")
    IN [i \in DOMAIN named |-> named[i].dataset]

\* C19: at every moment of a run that has reached its loop, the datasets
\* visited so far followed by those still to visit are the dataset names of
\* the registry, each once, in ascending order, whatever the order of the
\* rows of the variables table; a run that returns has visited them all; the
\* keys of the results are in ascending order in insertion order, and so
\* are the datasets named by the log entries.
C19_SortedVisitOrder ==
    (InRun /\ (out.pc = "loop" \/ out.trace # <<>> \/ Returned)) =>
        /\ Range(Visited \o out.todo) = schema.value.dataset_names
        /\ Len(Visited \o out.todo) = Cardinality(schema.value.dataset_names)
        /\ Ascending(Visited \o out.todo)
        /\ Returned => Range(Visited) = schema.value.dataset_names
        /\ Ascending(Keys(out.value))
        /\ \A i, j \in DOMAIN LoggedDatasets :
              i < j => (LoggedDatasets[i] = LoggedDatasets[j]
                          \/ Ascending(<<LoggedDatasets[i], LoggedDatasets[j]>>))

\* C19 witness: the variables table names b before a, and the run loaded a
\* and then b
C19_Witness ==
    /\ Returned
    /\ Len(csv_file.rows) = 2
    /\ csv_file.rows[1].dataset = "b"
    /\ csv_file.rows[2].dataset = "a"
    /\ Visited = <<"a", "b">>
    /\ Keys(out.value) = <<"a", "b">>

\* the first half of C18: in a run that returns, every registry dataset that
\* is no key of the returned mapping is named by a warning or an error of
\* the log, with the file name when the file was not found or failed
BulkDropsLogged ==
    Returned =>
        \A d \in schema.value.dataset_names \ Range(Keys(out.value)) :
            \E i \in DOMAIN out.log :
                /\ out.log[i].level \in {"warning", "error"}
                /\ "dataset" \in DOMAIN out.log[i]
                /\ out.log[i].dataset = d
                /\ out.log[i].file = ExpectedFile(d)

\* C18 as stated: no dataset is dropped by a bulk run without a warning or
\* an error naming it, and every call of load_dataset_frame that fails has
\* emitted an error log entry before raising.
C18_NoSilentFailure ==
    /\ BulkDropsLogged
    /\ (out.pc = "single" /\ ~out.ok) =>
          \E i \in DOMAIN out.log : out.log[i].level = "error"

RoundTripFile ==
    /\ call.file.state = "file"
    /\ call.file.size > 0
    /\ call.file.parse = "ok"
    /\ call.file.frame = [columns |-> <<"SubjID", "Age">>, rows |-> << <<"S01", "34">> >>]

\* the registry of the round trip: SubjID -> participant_id and Age -> age
\* for the dataset, age required
RoundTripRegistry ==
    /\ call.dataset \in schema.value.dataset_names
    /\ DOMAIN Mapping = {"SubjID", "Age"}
    /\ Mapping["SubjID"] = "participant_id"
    /\ Mapping["Age"] = "age"
    /\ Required = {"age"}

RoundTripResult ==
    /\ out.ok
    /\ out.value.columns = <<"participant_id", "age">>
    /\ out.value.rows = << <<"S01", "34">> >>

StageOrder == <<"dataset_known", "file_exists", "source_config", "read", "identifier",
                "mapping", "rename", "validate">>

StageErrors ==
    << {"unknown_dataset"},
       {"file_missing", "not_a_file", "empty_file"},
       {"missing_kind", "unsupported_kind", "missing_sheet_name", "header_row_not_integer",
        "header_row_negative", "not_a_mapping"},
       {"read_failed", "parse_error", "no_rows"},
       {"missing_id_column"},
       {"no_mapping"},
       {"duplicate_columns"},
       {"missing_required"} >>

\* what the input of the call violates, stage by stage, read off the schema
\* sources and the file
UnknownDataset == call.dataset \notin DefinedDatasets

BadFile == call.file.state # "file" \/ call.file.size = 0

BadConfig ==
    /\ ~UnknownDataset
    /\ LET e == yaml_file.data.value.datasets.value[call.dataset]
       IN \/ "source" \notin DOMAIN e
          \/ "kind" \notin DOMAIN e.source
          \/ e.source.kind \notin {"csv", "xlsx"}

BadRead ==
    /\ call.file.state = "file"
    /\ call.file.parse # "ok" \/ call.file.frame.rows = <<>>

NoIdentifier ==
    /\ call.file.state = "file"
    /\ call.file.parse = "ok"
    /\ Canonical \notin Range(call.file.frame.columns)
    /\ \A i \in DOMAIN Aliases : Aliases[i] \notin Range(call.file.frame.columns)

NoMapping == \A i \in DOMAIN TableRows : TableRows[i].dataset # call.dataset

Violations == <<UnknownDataset, BadFile, BadConfig, BadRead, NoIdentifier, NoMapping>>

\* C20: the stages a call went through are the first n of the fixed order,
\* every one before the last passed, and the call returns only after all
\* eight; a failed call raises the error of its last stage, one of the
\* errors of that stage; when the input violates one or more of the first
\* six stages the call stops at the earliest of them, whatever the later
\* ones would say, and otherwise it reaches the rename; the file is not
\* touched before the dataset is known nor read before the source settings
\* are accepted.
C20_StagesInOrder ==
    Called(out) =>
        LET n == Len(out.trace)
            violated == {i \in DOMAIN Violations : Violations[i]}
        IN /\ n \in 1..Len(StageOrder)
           /\ \A i \in 1..n : out.trace[i].stage = StageOrder[i]
           /\ \A i \in 1..(n - 1) : out.trace[i].ok
           /\ out.ok = (n = Len(StageOrder) /\ out.trace[n].ok)
           /\ ~out.ok =>
                 /\ ~out.trace[n].ok
                 /\ out.error = out.trace[n].error
                 /\ out.error.what \in StageErrors[n]
           /\ violated # {} =>
                 /\ ~out.ok
                 /\ \A i \in violated : n <= i
                 /\ n \in violated
           /\ violated = {} => n >= 7
           /\ n = 1 => out.io = <<>>
           /\ "read" \in Range(out.io) <=> n >= 4

\* C20 witness: an empty file for a dataset whose source names no kind and
\* that has no mapping: the call stops at the file, the earliest of the
\* three violated stages
C20_Witness ==
    /\ Called(out)
    /\ BadFile /\ BadConfig /\ NoMapping
    /\ call.file.state = "file"
    /\ Len(out.trace) = 2
    /\ out.error.what = "empty_file"

(***************************************************************************)
(* What the lines of the variables table say, read off the file itself.    *)
(***************************************************************************)
\* the rows of the table: its lines that hold at least one field
Records == SelectSeq(csv_file.rows, LAMBDA line : DOMAIN line # {})

\* a field of a row as text; a field the line stops short of is empty
Field(line, k) == IF line[k] = None THEN "" ELSE line[k]

\* the row with every field trimmed
Trimmed(line) == [k \in DOMAIN line |-> Strip(Field(line, k))]

\* dataset, source_column or variable_name is blank after trimming
BlankKey(line) ==
    \E k \in {"dataset", "source_column", "variable_name"} : Strip(Field(line, k)) = ""

(***************************************************************************)
(* C21, C22, C26: the variables table.                                     *)
(***************************************************************************)
\* C21: _load_csv never skips a bad row: when any row of the table has a
\* dataset, source_column or variable_name that is blank after trimming, the
\* load fails and neither rows nor a registry are returned; when the load
\* succeeds the returned rows are all the rows of the table, in file order,
\* with every field trimmed.
C21_NoRowSkipped ==
    Called(schema) =>
        /\ (\E i \in DOMAIN Records : BlankKey(Records[i])) =>
              /\ ~schema.ok
              /\ schema.value = EmptyDict
        /\ schema.ok =>
              /\ Len(schema.value.variables_rows) = Len(Records)
              /\ \A i \in DOMAIN Records :
                    schema.value.variables_rows[i] = Trimmed(Records[i])

\* C21 witness: the load failed on the second row, the first one being good
C21_Witness ==
    /\ Failed(schema)
    /\ schema.error.what = "invalid_row"
    /\ schema.error.line_no = 3
    /\ Len(Records) = 2
    /\ ~BlankKey(Records[1])
    /\ BlankKey(Records[2])

\* an is_required value that, trimmed and lower-cased, is a truthy token
MarksRequired(v) == Lower(Strip(v)) \in {"true", "1", "yes", "y"}

\* the rows of dataset d that name the canonical variable c
RowsNaming(d, c) ==
    { i \in DOMAIN Records :
        /\ Strip(Field(Records[i], "dataset")) = d
        /\ Strip(Field(Records[i], "variable_name")) = c }

\* C22: in a returned registry a canonical name is in a dataset's required
\* set if and only if some row of that dataset with that variable_name has an
\* is_required value that, trimmed and lower-cased, is one of "true", "1",
\* "yes", "y"; no other value (empty, "false", "no", "t", "0") makes a
\* variable required.
C22_RequiredIffTruthy ==
    (Called(schema) /\ schema.ok) =>
        \A d \in schema.value.dataset_names :
            LET required_set == Get(schema.value.required_vars_by_dataset, d, {})
                named == {Strip(Field(Records[i], "variable_name")) : i \in DOMAIN Records}
            IN /\ required_set \subseteq named
               /\ \A c \in named :
                     c \in required_set <=>
                        \E i \in RowsNaming(d, c) :
                            MarksRequired(Field(Records[i], "is_required"))

\* C22 witness: a registry in which "t" left a variable of one dataset
\* optional and " Yes " made the same variable of another dataset required
C22_Witness ==
    /\ Called(schema) /\ schema.ok
    /\ Len(Records) = 2
    /\ Records[1].dataset = "b" /\ Records[1].is_required = "t"
    /\ Records[2].dataset = " a " /\ Records[2].is_required = " Yes "
    /\ schema.value.required_vars_by_dataset["b"] = {}
    /\ schema.value.required_vars_by_dataset["a"] = {"age"}

\* the rows of the table as the second construction read them
ReorderedRecords == SelectSeq(call.file.rows, LAMBDA line : DOMAIN line # {})

\* two rows of one dataset give one source column two canonical names
RowConflict ==
    \E i, j \in DOMAIN Records :
        /\ Strip(Field(Records[i], "dataset")) = Strip(Field(Records[j], "dataset"))
        /\ Strip(Field(Records[i], "source_column")) = Strip(Field(Records[j], "source_column"))
        /\ Strip(Field(Records[i], "variable_name")) # Strip(Field(Records[j], "variable_name"))

\* two rows of one dataset with the same source column and canonical name
RepeatedPair ==
    \E i, j \in DOMAIN Records :
        /\ i < j
        /\ Records[i].dataset = Records[j].dataset
        /\ Records[i].source_column = Records[j].source_column
        /\ Records[i].variable_name = Records[j].variable_name

\* every line is a row of the right length with its key fields filled in
RowsWellFormed ==
    \A i \in DOMAIN Records : None \notin DOMAIN Records[i] /\ ~BlankKey(Records[i])

\* the type tag of the last of the rows that name variable c of dataset d
LastTypeTag(records, d, c) ==
    LET naming == { i \in DOMAIN records :
                      /\ Strip(Field(records[i], "dataset")) = d
                      /\ Strip(Field(records[i], "variable_name")) = c }
        last == CHOOSE i \in naming : \A j \in naming : j <= i
    IN Upper(Strip(Field(records[last], "sql_type")))

TypeTagsOfLastRows(registry, records) ==
    \A d \in DOMAIN registry.sql_types_by_dataset :
        \A c \in DOMAIN registry.sql_types_by_dataset[d] :
            registry.sql_types_by_dataset[d][c] = LastTypeTag(records, d, c)

\* C26: construction accepts a row that repeats an already-seen
\* (source_column, variable_name) pair; over the same rows in any other
\* order it returns a registry exactly when it did over the first order,
\* with the same source-to-canonical maps and the same required sets (a
\* later row that is not required never clears the mark); the type tag of a
\* canonical name is that of the last row naming it in the order read.
C26_OrderInsensitive ==
    /\ (Called(schema) /\ RowsWellFormed /\ ~RowConflict) => schema.ok
    /\ (Called(schema) /\ schema.ok) => TypeTagsOfLastRows(schema.value, Records)
    /\ (Called(schema) /\ Called(out)) =>
          /\ out.ok <=> schema.ok
          /\ schema.ok =>
                /\ out.value.source_to_canonical_by_dataset
                      = schema.value.source_to_canonical_by_dataset
                /\ out.value.required_vars_by_dataset = schema.value.required_vars_by_dataset
                /\ DOMAIN out.value.sql_types_by_dataset = DOMAIN schema.value.sql_types_by_dataset
                /\ TypeTagsOfLastRows(out.value, ReorderedRecords)

\* C26 witness: a required row and a row repeating its pair without the mark
\* and with another type, read in both orders: the maps and the required
\* sets agree, the type tags do not
C26_Witness ==
    /\ Called(schema) /\ schema.ok
    /\ Called(out) /\ out.ok
    /\ RepeatedPair
    /\ Len(Records) = 2
    /\ Records[1].is_required = "y" /\ Records[2].is_required = "no"
    /\ ReorderedRecords = <<Records[2], Records[1]>>
    /\ schema.value.required_vars_by_dataset = out.value.required_vars_by_dataset
    /\ schema.value.required_vars_by_dataset["a"] # {}
    /\ schema.value.sql_types_by_dataset # out.value.sql_types_by_dataset

(***************************************************************************)
(* C23: source configuration.  What datasets.yaml says about the source of *)
(* the dataset called for, read off the document itself.                   *)
(***************************************************************************)
SourceOf == yaml_file.data.value.datasets.value[call.dataset].source

\* the configured kind, trimmed and lower-cased; empty when there is none
KindOf ==
    IF "kind" \in DOMAIN SourceOf /\ SourceOf.kind # None
    THEN Lower(Strip(SourceOf.kind)) ELSE ""

SheetMissing ==
    \/ "sheet_name" \notin DOMAIN SourceOf
    \/ SourceOf.sheet_name = None
    \/ Strip(SourceOf.sheet_name) = ""

HeaderUnspecified == "header_row" \notin DOMAIN SourceOf

\* the configured header row is below zero
HeaderNegative ==
    /\ ~HeaderUnspecified
    /\ \/ SourceOf.header_row.type = "int" /\ SourceOf.header_row.value < 0
       \/ SourceOf.header_row.type = "float" /\ SourceOf.header_row.tenths < 0

\* the configured header row is null, a float with a fraction, or a text
\* that is no number
HeaderNotInteger ==
    /\ ~HeaderUnspecified
    /\ \/ SourceOf.header_row.type = "none"
       \/ SourceOf.header_row.type = "float" /\ SourceOf.header_row.tenths % 10 # 0
       \/ /\ SourceOf.header_row.type = "str"
          /\ \E k \in 1..Len(SourceOf.header_row.value) :
                 ~IsDigit(SubSeq(SourceOf.header_row.value, k, k))

\* C23: for a known dataset and an existing file, a missing or empty kind
\* and a kind other than csv and xlsx are fatal; for xlsx a missing or empty
\* sheet name is fatal, an unspecified header row resolves to 0, and a
\* negative or non-integer header row is fatal; for csv neither sheet name
\* nor header row is required or validated; on every fatal outcome the file
\* is not read.
C23_SourceConfigResolution ==
    (Called(out) /\ Ran("source_config")) =>
        LET r == StageOf("source_config")
        IN /\ KindOf \notin {"csv", "xlsx"} => ~r.ok
           /\ KindOf = "csv" => r.ok /\ r.value.kind = "csv"
           /\ (KindOf = "xlsx" /\ SheetMissing) => ~r.ok
           /\ (KindOf = "xlsx" /\ ~SheetMissing /\ HeaderUnspecified) =>
                 r.ok /\ r.value.header_row = 0
           /\ (KindOf = "xlsx" /\ ~SheetMissing /\ (HeaderNegative \/ HeaderNotInteger)) =>
                 ~r.ok
           /\ ~r.ok => ~out.ok /\ "read" \notin Range(out.io)

(***************************************************************************)
(* C24: datasets without variable rows.                                    *)
(***************************************************************************)
\* the datasets of the registry that no row of the variables table names
WithoutRows ==
    { d \in schema.value.dataset_names :
        \A i \in DOMAIN csv_file.rows : Strip(csv_file.rows[i].dataset) # d }

\* the call of load_dataset_frame that gave r passed the stage
PassedStage(r, stage) ==
    \E i \in DOMAIN r.trace : r.trace[i].stage = stage /\ r.trace[i].ok

\* r is a failure, and the failure for want of a mapping exactly when the
\* file was read and the identifier resolved
FailsUnmapped(r) ==
    /\ ~r.ok
    /\ r.error.what = "no_mapping" <=> PassedStage(r, "identifier")
    /\ r.error.what = "no_mapping" =>
          /\ PassedStage(r, "read")
          /\ r.trace[Len(r.trace)].stage = "mapping"
          /\ \E i \in DOMAIN r.log : r.log[i].level = "error" /\ r.log[i].what = "no_mapping"

\* C24: for a dataset that the definitions document defines and no variable
\* row names, load_dataset_frame always fails; once the file has been read
\* and the identifier resolved the failure is the "no column mapping" error,
\* which is raised at no earlier point; and no run of bulk_load_datasets has
\* such a dataset among the keys of its result, whatever its file holds.
C24_UnmappedNeverStandardized ==
    /\ (out.pc = "single" /\ call.dataset \in WithoutRows) => FailsUnmapped(out)
    /\ InRun =>
          /\ \A d \in WithoutRows : d \notin Range(Keys(out.value))
          /\ \A i \in DOMAIN out.trace :
                (out.trace[i].dataset \in WithoutRows /\ Called(out.trace[i].load)) =>
                    /\ FailsUnmapped(out.trace[i].load)
                    /\ out.trace[i].outcome = "failed"

\* C24 witness: a run returned with dataset a alone; b has no variable row,
\* its file is present, is read and holds the identifier, and its load
\* failed for want of a column mapping
C24_Witness ==
    /\ Returned
    /\ Keys(out.value) = <<"a">>
    /\ "b" \in WithoutRows
    /\ Present("b")
    /\ \E i \in DOMAIN out.trace :
          /\ out.trace[i].dataset = "b"
          /\ out.trace[i].load.error.what = "no_mapping"
          /\ PassedStage(out.trace[i].load, "identifier")

(***************************************************************************)
(* C25: a file that holds the canonical identifier column and an alias.    *)
(***************************************************************************)
\* the cells of the column of df labelled c, top to bottom
ColumnOf(df, c) ==
    LET p == CHOOSE j \in DOMAIN df.columns : df.columns[j] = c
    IN [r \in DOMAIN df.rows |-> df.rows[r][p]]

\* the aliases of the identifier that are columns of the file
AliasesInFile == {a \in Range(Aliases) : a \in Range(StageOf("read").value.columns)}

\* C25: when the file holds the canonical identifier column and an alias of
\* it, the canonical column is the identifier and the labels stay as they
\* are; in the rename an alias column that is no source column of the
\* mapping is dropped, and one that the mapping sends to the canonical
\* identifier name makes a duplicate column, so that standardization fails;
\* the identifiers of a returned dataset are those of the canonical column,
\* never the cells of the alias column.
C25_CanonicalBeatsAlias ==
    (/\ Called(out) /\ Ran("identifier")
     /\ Canonical \in Range(StageOf("read").value.columns)
     /\ AliasesInFile # {}) =>
        /\ StageOf("identifier").ok
        /\ StageOf("identifier").value.columns = StageOf("read").value.columns
        /\ \A a \in AliasesInFile :
              /\ (Ran("rename") /\ a \notin DOMAIN Mapping /\ StageOf("rename").ok) =>
                    a \notin Range(StageOf("rename").value.columns)
              /\ (Ran("rename") /\ a \in DOMAIN Mapping /\ Mapping[a] = Canonical) =>
                    /\ ~StageOf("rename").ok
                    /\ ~out.ok
                    /\ out.error.what = "duplicate_columns"
        /\ out.ok =>
              ColumnOf(out.value, Canonical) = ColumnOf(StageOf("identifier").value, Canonical)

====
